---- MODULE Spec2Model ----
(***************************************************************************)
(* A model of earctl's protocol engine: the packet codec (protocol.rs),   *)
(* the framed connection (connection.rs) and the session layer with its   *)
(* capability gating (service.rs, models.rs).                              *)
(*                                                                         *)
(* Two specifications are defined over the same variables:                 *)
(*   SpecCodec  the read accumulator fed with a byte stream in arbitrary  *)
(*              chunks, EarPacket::try_parse called on it;                 *)
(*   Spec       concurrent tasks calling session operations through       *)
(*              clones of one EarSessionHandle, a device answering.        *)
(***************************************************************************)
EXTENDS Integers, Sequences, FiniteSets, TLC

(***************************************************************************)
(* Bounds of the model.                                                    *)
(***************************************************************************)
\* longest payload of a frame sent alone
MaxPayload == 3
\* most frames in one stream
MaxFrames == 2
\* most noise bytes in front of a frame
MaxNoise == 3
\* most frames the device sends in one run
MaxDeviceFrames == 2
\* the length of a tick of the clock, in milliseconds
TickMs == 1000

\* the sessions one manager creates in a behaviour
MaxSessions == 2

\* the send_command calls on one connection in a behaviour of SpecCounter:
\* enough for the counter to pass 250 and start again
MaxSends == 252

\* the serials under test have up to MaxTail characters after their eighth
MaxTail == 1

\* the longest payload given to the parsers of service.rs
MaxParsed == 9

\* the longest list of pixels given to set_led_case_colors, besides the one
\* of LedPixelsMax pixels
MaxPixels == 3

(***************************************************************************)
(* u8 / u16 arithmetic.                                                    *)
(***************************************************************************)
\* a ^ b on unsigned values, bit by bit from the least significant bit; the
\* result is never wider than the wider operand
RECURSIVE Xor(_, _)
Xor(a, b) ==
    IF a = 0 THEN b
    ELSE IF b = 0 THEN a
    ELSE (((a % 2) + (b % 2)) % 2) + 2 * Xor(a \div 2, b \div 2)

\* x ^ w for w a single bit (a power of two): the bit is flipped
FlipBit(x, w) == IF (x \div w) % 2 = 1 THEN x - w ELSE x + w

\* u16::to_le_bytes
to_le_bytes(v) == << v % 256, (v \div 256) % 256 >>

\* u16::from_le_bytes
from_le_bytes(lo, hi) == lo + 256 * hi

\* slice[a..b] of a Vec, 0-based and end-exclusive as in Rust
Slice(s, a, b) == SubSeq(s, a + 1, b)

IsPrefix(s, t) == Len(s) <= Len(t) /\ s = SubSeq(t, 1, Len(s))

RECURSIVE Concat(_)
Concat(seqs) == IF seqs = << >> THEN << >> ELSE Head(seqs) \o Concat(Tail(seqs))

(***************************************************************************)
(* protocol.rs                                                             *)
(***************************************************************************)
HEADER_MAGIC == << \h55, \h60, \h01 >>
HEADER_LEN == 8
CRC_LEN == 2

\* a bug: the polynomial is 0x8408
xor_8408(x) == FlipBit(FlipBit(FlipBit(x, \h8000), \h0400), \h0008)

\* x ^ 0xA001, the three bits of 0xA001 = 0x8000 | 0x2000 | 0x0001 flipped
xor_A001(x) == FlipBit(FlipBit(FlipBit(x, \h8000), \h2000), \h0001)

\* the inner `for _ in 0..8` loop of crc16, n iterations left
RECURSIVE crc16_bits(_, _)
crc16_bits(crc, n) ==
    IF n = 0 THEN crc
    ELSE IF crc % 2 = 1
         THEN crc16_bits(xor_A001(crc \div 2), n - 1)
         ELSE crc16_bits(crc \div 2, n - 1)

\* the outer loop of crc16 over the bytes i..j; crc is a u16.  The bytes are
\* taken in their order, the first half of the range before the second
RECURSIVE crc16_from(_, _, _, _)
crc16_from(buf, i, j, crc) ==
    IF i > j \/ crc > \hFFFF THEN crc
    ELSE IF i = j THEN crc16_bits(Xor(crc, buf[i]), 8)
    ELSE LET mid == (i + j) \div 2
         IN  crc16_from(buf, mid + 1, j, crc16_from(buf, i, mid, crc))

crc16(buf) == crc16_from(buf, 1, Len(buf), \hFFFF)

\* a bug: the length is written behind the reserved byte
encode_body_swapped(command, operation_id, payload) ==
    HEADER_MAGIC \o to_le_bytes(command)
        \o << \h00, Len(payload) % 256, operation_id >> \o payload

\* the frame without its CRC: magic, command LE, payload.len() as u8, 0x00,
\* operation id, payload
encode_body(command, operation_id, payload) ==
    HEADER_MAGIC \o to_le_bytes(command)
        \o << Len(payload) % 256, \h00, operation_id >> \o payload

encode(command, operation_id, payload) ==
    LET packet == encode_body(command, operation_id, payload)
    IN  packet \o to_le_bytes(crc16(packet))

EarPacket(command, operation_id, payload) ==
    [command |-> command, operation_id |-> operation_id, payload |-> payload]

\* buffer.iter().position(|&byte| byte == HEADER_MAGIC[0]), 0-based; -1 = None
RECURSIVE position_from(_, _)
position_from(buf, i) ==
    IF i > Len(buf) THEN -1
    ELSE IF buf[i] = HEADER_MAGIC[1] THEN i - 1
    ELSE position_from(buf, i + 1)

position(buf) == position_from(buf, 1)

\* a bug: the operation id is read from the reserved byte
parse_frame_reserved(buf, payload_len, total_len) ==
    LET packet_bytes == Slice(buf, 0, total_len)
        rest         == Slice(buf, total_len, Len(buf))
        crc_expected == from_le_bytes(packet_bytes[total_len - 1],
                                      packet_bytes[total_len])
        crc_actual   == crc16(Slice(packet_bytes, 0, total_len - CRC_LEN))
    IN  IF crc_actual # crc_expected
        THEN [buffer |-> rest, tag |-> "Err"]
        ELSE [buffer |-> rest, tag |-> "Some",
              packet |-> EarPacket(from_le_bytes(packet_bytes[4], packet_bytes[5]),
                                   packet_bytes[7],
                                   Slice(packet_bytes, HEADER_LEN,
                                         HEADER_LEN + payload_len))]

\* a bug: the whole buffer is taken out with the frame
parse_frame_clear(buf, payload_len, total_len) ==
    LET packet_bytes == Slice(buf, 0, total_len)
        crc_expected == from_le_bytes(packet_bytes[total_len - 1],
                                      packet_bytes[total_len])
        crc_actual   == crc16(Slice(packet_bytes, 0, total_len - CRC_LEN))
    IN  IF crc_actual # crc_expected
        THEN [buffer |-> << >>, tag |-> "Err"]
        ELSE [buffer |-> << >>, tag |-> "Some",
              packet |-> EarPacket(from_le_bytes(packet_bytes[4], packet_bytes[5]),
                                   packet_bytes[8],
                                   Slice(packet_bytes, HEADER_LEN,
                                         HEADER_LEN + payload_len))]

\* a bug: the CRC of the frame is not checked
parse_frame_unchecked(buf, payload_len, total_len) ==
    LET packet_bytes == Slice(buf, 0, total_len)
        rest         == Slice(buf, total_len, Len(buf))
    IN  [buffer |-> rest, tag |-> "Some",
         packet |-> EarPacket(from_le_bytes(packet_bytes[4], packet_bytes[5]),
                              packet_bytes[8],
                              Slice(packet_bytes, HEADER_LEN,
                                    HEADER_LEN + payload_len))]

\* try_parse once a complete frame of total_len bytes is in the buffer: the
\* frame is drained, its CRC checked, its fields read
parse_frame(buf, payload_len, total_len) ==
    LET packet_bytes == Slice(buf, 0, total_len)
        rest         == Slice(buf, total_len, Len(buf))
        crc_expected == from_le_bytes(packet_bytes[total_len - 1],
                                      packet_bytes[total_len])
        crc_actual   == crc16(Slice(packet_bytes, 0, total_len - CRC_LEN))
    IN  IF crc_actual # crc_expected
        THEN [buffer |-> rest, tag |-> "Err"]
        ELSE [buffer |-> rest, tag |-> "Some",
              packet |-> EarPacket(from_le_bytes(packet_bytes[4], packet_bytes[5]),
                                   packet_bytes[8],
                                   Slice(packet_bytes, HEADER_LEN,
                                         HEADER_LEN + payload_len))]

\* a bug: the resync skips the length of the magic
resync_magic(b) == Slice(b, Len(HEADER_MAGIC), Len(b))

\* buffer.drain(0..1) after a 0x55 that is not followed by 0x60 0x01
resync(b) == Slice(b, 1, Len(b))

\* a bug: an incomplete frame is thrown away
take_frame_drop(b) ==
    LET payload_len == b[6]
        total_len   == HEADER_LEN + payload_len + CRC_LEN
    IN  IF Len(b) < total_len
        THEN [buffer |-> << >>, tag |-> "None"]
        ELSE parse_frame(b, payload_len, total_len)

\* a bug: a frame that fails its CRC check is left in the buffer
take_frame_keep(b) ==
    LET payload_len == b[6]
        total_len   == HEADER_LEN + payload_len + CRC_LEN
        r           == parse_frame(b, payload_len, total_len)
    IN  IF Len(b) < total_len
        THEN [buffer |-> b, tag |-> "None"]
        ELSE IF r.tag = "Err" THEN [buffer |-> b, tag |-> "Err"] ELSE r

\* try_parse from the read of the length byte on: wait for the whole frame,
\* then parse it
take_frame(b) ==
    LET payload_len == b[6]
        total_len   == HEADER_LEN + payload_len + CRC_LEN
    IN  IF Len(b) < total_len
        THEN [buffer |-> b, tag |-> "None"]
        ELSE parse_frame(b, payload_len, total_len)

\* EarPacket::try_parse: the new contents of the buffer and the value returned,
\* tag "None" = Ok(None), "Some" = Ok(Some(packet)), "Err" = Err(CrcMismatch)
RECURSIVE try_parse(_)
try_parse(buf) ==
    IF Len(buf) < HEADER_LEN THEN [buffer |-> buf, tag |-> "None"]
    ELSE LET start_index == position(buf)
         IN  IF start_index < 0 THEN [buffer |-> << >>, tag |-> "None"]
             ELSE LET b == Slice(buf, start_index, Len(buf))
                  IN  IF Len(b) < HEADER_LEN THEN [buffer |-> b, tag |-> "None"]
                      ELSE IF b[2] # HEADER_MAGIC[2] \/ b[3] # HEADER_MAGIC[3]
                      THEN try_parse(resync(b))
                      ELSE take_frame(b)

(***************************************************************************)
(* Option<T>                                                               *)
(***************************************************************************)
None == [tag |-> "None"]
Some(v) == [tag |-> "Some", value |-> v]

(***************************************************************************)
(* models.rs                                                               *)
(***************************************************************************)
ModelBase ==
    { "Unknown", "B181", "B157", "B155", "B163", "B171", "B162", "B164",
      "B168", "B172", "B174" }

supports_case_led(base) == base = "B181"

supports_personalized_anc(base) == base = "B155"

supports_enhanced_bass(base) == base \in { "B171", "B172", "B168", "B162" }

supports_in_ear_detection(base) == ~(base = "B174")

supports_custom_eq(base) == ~(base = "B181")

supports_listening_modes(base) == base \in { "B168", "B172" }


MODEL_LIST == <<
    [id |-> "ear_1_white", name |-> "Nothing Ear (1)", base |-> "B181",
     anc_capable |-> TRUE],
    [id |-> "ear_1_black", name |-> "Nothing Ear (1)", base |-> "B181",
     anc_capable |-> TRUE],
    [id |-> "ear_stick", name |-> "Nothing Ear (stick)", base |-> "B157",
     anc_capable |-> FALSE],
    [id |-> "ear_2_white", name |-> "Nothing Ear (2)", base |-> "B155",
     anc_capable |-> TRUE],
    [id |-> "ear_2_black", name |-> "Nothing Ear (2)", base |-> "B155",
     anc_capable |-> TRUE],
    [id |-> "corsola_orange", name |-> "CMF Buds Pro", base |-> "B163",
     anc_capable |-> TRUE],
    [id |-> "corsola_black", name |-> "CMF Buds Pro", base |-> "B163",
     anc_capable |-> TRUE],
    [id |-> "corsola_white", name |-> "CMF Buds Pro", base |-> "B163",
     anc_capable |-> TRUE],
    [id |-> "entei_black", name |-> "Nothing Ear", base |-> "B171",
     anc_capable |-> TRUE],
    [id |-> "entei_white", name |-> "Nothing Ear", base |-> "B171",
     anc_capable |-> TRUE],
    [id |-> "cleffa_black", name |-> "Nothing Ear (a)", base |-> "B162",
     anc_capable |-> TRUE],
    [id |-> "cleffa_white", name |-> "Nothing Ear (a)", base |-> "B162",
     anc_capable |-> TRUE],
    [id |-> "cleffa_yellow", name |-> "Nothing Ear (a)", base |-> "B162",
     anc_capable |-> TRUE],
    [id |-> "crobat_orange", name |-> "CMF Neckband Pro", base |-> "B164",
     anc_capable |-> TRUE],
    [id |-> "crobat_white", name |-> "CMF Neckband Pro", base |-> "B164",
     anc_capable |-> TRUE],
    [id |-> "crobat_black", name |-> "CMF Neckband Pro", base |-> "B164",
     anc_capable |-> TRUE],
    [id |-> "donphan_black", name |-> "CMF Buds", base |-> "B168",
     anc_capable |-> TRUE],
    [id |-> "donphan_white", name |-> "CMF Buds", base |-> "B168",
     anc_capable |-> TRUE],
    [id |-> "donphan_orange", name |-> "CMF Buds", base |-> "B168",
     anc_capable |-> TRUE],
    [id |-> "espeon_black", name |-> "CMF Buds Pro 2", base |-> "B172",
     anc_capable |-> TRUE],
    [id |-> "espeon_white", name |-> "CMF Buds Pro 2", base |-> "B172",
     anc_capable |-> TRUE],
    [id |-> "espeon_orange", name |-> "CMF Buds Pro 2", base |-> "B172",
     anc_capable |-> TRUE],
    [id |-> "espeon_blue", name |-> "CMF Buds Pro 2", base |-> "B172",
     anc_capable |-> TRUE],
    [id |-> "flaaffy_white", name |-> "Nothing Ear (open)", base |-> "B174",
     anc_capable |-> FALSE]
>>

\* (sku, model id); the sku is text, a sequence of character codes:
\* << 48, 49 >> is "01"
SKU_TO_MODEL_PAIRS == <<
    << << 48, 49 >>, "ear_1_white" >>, << << 48, 50 >>, "ear_1_black" >>,
    << << 48, 51 >>, "ear_1_white" >>, << << 48, 52 >>, "ear_1_black" >>,
    << << 48, 54 >>, "ear_1_black" >>, << << 48, 55 >>, "ear_1_white" >>,
    << << 48, 56 >>, "ear_1_black" >>, << << 49, 48 >>, "ear_1_black" >>,
    << << 49, 52 >>, "ear_stick" >>, << << 49, 53 >>, "ear_stick" >>,
    << << 49, 54 >>, "ear_stick" >>, << << 49, 55 >>, "ear_2_white" >>,
    << << 49, 56 >>, "ear_2_white" >>, << << 49, 57 >>, "ear_2_white" >>,
    << << 50, 55 >>, "ear_2_black" >>, << << 50, 56 >>, "ear_2_black" >>,
    << << 50, 57 >>, "ear_2_black" >>, << << 51, 48 >>, "corsola_black" >>,
    << << 51, 49 >>, "corsola_black" >>, << << 51, 50 >>, "corsola_white" >>,
    << << 51, 51 >>, "corsola_white" >>, << << 51, 52 >>, "corsola_orange" >>,
    << << 51, 53 >>, "corsola_orange" >>, << << 52, 56 >>, "crobat_orange" >>,
    << << 52, 57 >>, "crobat_white" >>, << << 53, 48 >>, "crobat_black" >>,
    << << 53, 49 >>, "crobat_black" >>, << << 53, 50 >>, "crobat_white" >>,
    << << 53, 51 >>, "crobat_orange" >>, << << 53, 52 >>, "donphan_black" >>,
    << << 53, 53 >>, "donphan_black" >>, << << 53, 54 >>, "donphan_white" >>,
    << << 53, 55 >>, "donphan_white" >>, << << 53, 56 >>, "donphan_orange" >>,
    << << 53, 57 >>, "donphan_orange" >>, << << 54, 49 >>, "entei_black" >>,
    << << 54, 50 >>, "entei_white" >>, << << 54, 51 >>, "cleffa_black" >>,
    << << 54, 52 >>, "cleffa_white" >>, << << 54, 53 >>, "cleffa_yellow" >>,
    << << 54, 54 >>, "cleffa_black" >>, << << 54, 55 >>, "cleffa_white" >>,
    << << 54, 56 >>, "cleffa_yellow" >>, << << 54, 57 >>, "entei_black" >>,
    << << 55, 48 >>, "entei_white" >>, << << 55, 49 >>, "cleffa_black" >>,
    << << 55, 50 >>, "cleffa_white" >>, << << 55, 51 >>, "cleffa_yellow" >>,
    << << 55, 52 >>, "entei_black" >>, << << 55, 53 >>, "entei_white" >>,
    << << 55, 54 >>, "espeon_black" >>, << << 55, 55 >>, "espeon_white" >>,
    << << 55, 56 >>, "espeon_orange" >>, << << 55, 57 >>, "espeon_blue" >>,
    << << 56, 48 >>, "espeon_blue" >>, << << 56, 49 >>, "espeon_orange" >>,
    << << 56, 50 >>, "espeon_white" >>, << << 56, 51 >>, "espeon_black" >>,
    << << 49, 49, 50, 48, 48, 48, 48, 53 >>, "flaaffy_white" >>
>>


\* the largest of the indexes, 0 if there is none
LastIndex(hits) ==
    IF hits = {} THEN 0 ELSE CHOOSE i \in hits : \A j \in hits : j <= i

\* a bug: the last entry of the list is not in the map
model_from_id_short(id) ==
    LET at(i) == MODEL_LIST[i].id = id
        k     == LastIndex({ i \in 1..(Len(MODEL_LIST) - 1) : at(i) })
    IN  IF k = 0 THEN None ELSE Some(MODEL_LIST[k])

\* MODEL_BY_ID.get(id): the map is filled in list order, a later entry of the
\* same id replacing an earlier one
model_from_id(id) ==
    LET at(i) == MODEL_LIST[i].id = id
        k     == LastIndex({ i \in 1..Len(MODEL_LIST) : at(i) })
    IN  IF k = 0 THEN None ELSE Some(MODEL_LIST[k])

\* a bug: every SKU resolves to the model of the first pair
model_from_sku_any(sku) == model_from_id(SKU_TO_MODEL_PAIRS[1][2])

\* SKU_TO_MODEL.get(sku): a pair enters the map only if its model id is known
model_from_sku(sku) ==
    LET at(i) == /\ SKU_TO_MODEL_PAIRS[i][1] = sku
                 /\ model_from_id(SKU_TO_MODEL_PAIRS[i][2]) # None
        k     == LastIndex({ i \in 1..Len(SKU_TO_MODEL_PAIRS) : at(i) })
    IN  IF k = 0 THEN None ELSE model_from_id(SKU_TO_MODEL_PAIRS[k][2])

(***************************************************************************)
(* types.rs                                                                *)
(***************************************************************************)
AncLevel ==
    { "Off", "Transparency", "NoiseCancellationLow", "NoiseCancellationHigh",
      "NoiseCancellationMid", "NoiseCancellationAdaptive" }

from_device(value) ==
    CASE value = \h05 -> Some("Off")
      [] value = \h07 -> Some("Transparency")
      [] value = \h03 -> Some("NoiseCancellationLow")
      [] value = \h01 -> Some("NoiseCancellationHigh")
      [] value = \h02 -> Some("NoiseCancellationMid")
      [] value = \h04 -> Some("NoiseCancellationAdaptive")
      [] OTHER        -> None

\* a bug: NC-Mid is sent with the code of NC-Low
to_device_mid(level) ==
    CASE level = "Off"                       -> \h05
      [] level = "Transparency"              -> \h07
      [] level = "NoiseCancellationLow"      -> \h03
      [] level = "NoiseCancellationHigh"     -> \h01
      [] level = "NoiseCancellationMid"      -> \h03
      [] level = "NoiseCancellationAdaptive" -> \h04

to_device(level) ==
    CASE level = "Off"                       -> \h05
      [] level = "Transparency"              -> \h07
      [] level = "NoiseCancellationLow"      -> \h03
      [] level = "NoiseCancellationHigh"     -> \h01
      [] level = "NoiseCancellationMid"      -> \h02
      [] level = "NoiseCancellationAdaptive" -> \h04

EarSide == { "Left", "Right", "Case" }


(***************************************************************************)
(* Text.  A string is the sequence of its character codes; the model keeps *)
(* to ASCII, where a character is one byte.                                *)
(***************************************************************************)
\* String::from_utf8_lossy on ASCII bytes; a byte that cannot start a
\* character becomes U+FFFD
from_utf8_lossy(bytes) ==
    [i \in 1..Len(bytes) |-> IF bytes[i] < 128 THEN bytes[i] ELSE 65533]

IsWhitespace(c) == c \in { 9, 10, 11, 12, 13, 32 }

RECURSIVE trim_start(_)
trim_start(s) ==
    IF s # << >> /\ IsWhitespace(Head(s)) THEN trim_start(Tail(s)) ELSE s

RECURSIVE trim_end(_)
trim_end(s) ==
    IF s # << >> /\ IsWhitespace(s[Len(s)])
    THEN trim_end(SubSeq(s, 1, Len(s) - 1)) ELSE s

\* str::trim
trim(s) == trim_end(trim_start(s))

\* str::split(sep): the pieces between the separators, in order
RECURSIVE split_from(_, _, _, _)
split_from(s, sep, i, piece) ==
    IF i > Len(s) THEN << piece >>
    ELSE IF s[i] = sep
         THEN << piece >> \o split_from(s, sep, i + 1, << >>)
         ELSE split_from(s, sep, i + 1, Append(piece, s[i]))

split(s, sep) == split_from(s, sep, 1, << >>)

strip_cr(l) ==
    IF l # << >> /\ l[Len(l)] = 13 THEN SubSeq(l, 1, Len(l) - 1) ELSE l

\* str::lines: split at "\n", a "\r" in front of it belongs to the line
\* ending, and an empty piece behind the last "\n" is no line
lines(text) ==
    LET pieces == split(text, 10)
        n      == Len(pieces)
        kept   == IF pieces[n] = << >> THEN n - 1 ELSE n
    IN  [i \in 1..kept |-> IF i < n THEN strip_cr(pieces[i]) ELSE pieces[i]]

(***************************************************************************)
(* service.rs: payload codecs                                              *)
(***************************************************************************)
\* a bug: the second field is taken for the serial
RECURSIVE serial_from_lines_second(_, _)
serial_from_lines_second(ls, i) ==
    IF i > Len(ls) THEN None
    ELSE LET parts == split(ls[i], 44)
         IN  IF /\ Len(parts) = 3
                /\ trim(parts[2]) = << 52 >>
                /\ trim(parts[3]) # << >>
             THEN Some(trim(parts[2]))
             ELSE serial_from_lines_second(ls, i + 1)

\* the first line of three comma-separated fields whose second field is "4"
\* and whose third field is not empty, from the i-th line on
RECURSIVE serial_from_lines(_, _)
serial_from_lines(ls, i) ==
    IF i > Len(ls) THEN None
    ELSE LET parts == split(ls[i], 44)
         IN  IF /\ Len(parts) = 3
                /\ trim(parts[2]) = << 52 >>
                /\ trim(parts[3]) # << >>
             THEN Some(trim(parts[3]))
             ELSE serial_from_lines(ls, i + 1)

parse_serial_number(payload) ==
    IF Len(payload) < 8 THEN None
    ELSE serial_from_lines(lines(from_utf8_lossy(Slice(payload, 7, Len(payload)))), 1)

\* the text "12345678901234567"
DEBUG_SERIAL == << 49, 50, 51, 52, 53, 54, 55, 56, 57, 48, 49, 50, 51, 52, 53, 54, 55 >>

\* a panic of the running task
Panic == [tag |-> "Panic"]

\* a bug: the year "23" is not known
derive_sku_from_serial_22(serial) ==
    IF serial = DEBUG_SERIAL THEN Some(<< 48, 49 >>)
    ELSE IF Len(serial) < 6 THEN None
    ELSE LET head == Slice(serial, 0, 2)
         IN  IF head = << 77, 65 >>
             THEN IF Len(serial) < 8 THEN Panic
                  ELSE LET year == Slice(serial, 6, 8)
                       IN  IF year = << 50, 50 >>
                           THEN Some(<< 49, 52 >>)
                           ELSE IF year = << 50, 52 >>
                           THEN Some(<< 49, 49, 50, 48, 48, 48, 48, 53 >>)
                           ELSE None
             ELSE IF head = << 83, 72 >> \/ head = << 49, 51 >>
             THEN Some(Slice(serial, 4, 6))
             ELSE None

\* derive_sku_from_serial on ASCII text; &serial[6..8] panics on a serial
\* shorter than 8 bytes
derive_sku_from_serial(serial) ==
    IF serial = DEBUG_SERIAL THEN Some(<< 48, 49 >>)
    ELSE IF Len(serial) < 6 THEN None
    ELSE LET head == Slice(serial, 0, 2)
         IN  IF head = << 77, 65 >>
             THEN IF Len(serial) < 8 THEN Panic
                  ELSE LET year == Slice(serial, 6, 8)
                       IN  IF year = << 50, 50 >> \/ year = << 50, 51 >>
                           THEN Some(<< 49, 52 >>)
                           ELSE IF year = << 50, 52 >>
                           THEN Some(<< 49, 49, 50, 48, 48, 48, 48, 53 >>)
                           ELSE None
             ELSE IF head = << 83, 72 >> \/ head = << 49, 51 >>
             THEN Some(Slice(serial, 4, 6))
             ELSE None

Disconnected == [tag |-> "Disconnected"]
Level(percent, charging) ==
    [tag |-> "Level", percent |-> percent, charging |-> charging]

\* a bug: the charging bit is left in the percentage
RECURSIVE battery_from_unmasked(_, _, _, _)
battery_from_unmasked(payload, count, i, status) ==
    IF i >= count THEN status
    ELSE LET idx == 1 + i * 2
         IN  IF idx + 1 >= Len(payload) THEN status
             ELSE LET device_id  == payload[idx + 1]
                      level_byte == payload[idx + 2]
                      reading    == Level(level_byte, level_byte >= 128)
                  IN  battery_from_unmasked(payload, count, i + 1,
                        CASE device_id = \h02 -> [status EXCEPT !.left = reading]
                          [] device_id = \h03 -> [status EXCEPT !.right = reading]
                          [] device_id = \h04 -> [status EXCEPT !.case = reading]
                          [] OTHER            -> status)

\* the loop of parse_battery_payload from entry i on
RECURSIVE battery_from(_, _, _, _)
battery_from(payload, count, i, status) ==
    IF i >= count THEN status
    ELSE LET idx == 1 + i * 2
         IN  IF idx + 1 >= Len(payload) THEN status
             ELSE LET device_id  == payload[idx + 1]
                      level_byte == payload[idx + 2]
                      reading    == Level(level_byte % 128, level_byte >= 128)
                  IN  battery_from(payload, count, i + 1,
                        CASE device_id = \h02 -> [status EXCEPT !.left = reading]
                          [] device_id = \h03 -> [status EXCEPT !.right = reading]
                          [] device_id = \h04 -> [status EXCEPT !.case = reading]
                          [] OTHER            -> status)

parse_battery_payload(payload) ==
    LET empty == [left |-> Disconnected, right |-> Disconnected,
                  case |-> Disconnected]
    IN  IF payload = << >> THEN empty
        ELSE battery_from(payload, payload[1], 0, empty)

\* an f32 is the sequence of the four bytes of its bit pattern, big-endian
F32_ZERO == << 0, 0, 0, 0 >>

f32_is_nan(v) ==
    /\ v[1] % 128 = 127 /\ v[2] >= 128
    /\ (v[2] % 128 # 0 \/ v[3] # 0 \/ v[4] # 0)

f32_is_zero(v) == v[1] % 128 = 0 /\ v[2] = 0 /\ v[3] = 0 /\ v[4] = 0

f32_negative(v) == v[1] >= 128

\* -v
f32_neg(v) == << (v[1] + 128) % 256, v[2], v[3], v[4] >>

\* v.abs()
f32_abs(v) == << v[1] % 128, v[2], v[3], v[4] >>

\* the magnitude of v as a number that orders like |v|: below 2^31
f32_magnitude(v) == (v[1] % 128) * 16777216 + v[2] * 65536 + v[3] * 256 + v[4]

\* a < b, false when one of them is NaN
f32_lt(a, b) ==
    /\ ~f32_is_nan(a) /\ ~f32_is_nan(b)
    /\ ~(f32_is_zero(a) /\ f32_is_zero(b))
    /\ IF f32_negative(a) # f32_negative(b) THEN f32_negative(a)
       ELSE IF f32_negative(a) THEN f32_magnitude(a) > f32_magnitude(b)
       ELSE f32_magnitude(a) < f32_magnitude(b)

\* a >= 0.0
f32_ge_zero(a) == ~f32_is_nan(a) /\ (f32_is_zero(a) \/ ~f32_negative(a))

\* a.max(b): the other one when one is NaN
f32_max(a, b) ==
    IF f32_is_nan(a) THEN b
    ELSE IF f32_is_nan(b) THEN a
    ELSE IF f32_lt(a, b) THEN b ELSE a

\* bytes[3] |= 0x80
SetHighBit(b) == IF b >= 128 THEN b ELSE b + 128

encode_eq_float(value, total) ==
    IF total /\ f32_ge_zero(value) THEN << \h00, \h00, \h00, \h80 >>
    ELSE LET marked == IF /\ ~f32_is_zero(value)
                          /\ value[1] = 0 /\ value[2] = 0 /\ value[3] = 0
                       THEN << value[1], value[2], value[3], SetHighBit(value[4]) >>
                       ELSE value
         IN  << marked[4], marked[3], marked[2], marked[1] >>

decode_eq_float(bytes) ==
    IF Len(bytes) < 4 THEN F32_ZERO
    ELSE LET slice == << bytes[4], bytes[3], bytes[2], bytes[1] >>
         IN  IF slice[1] = 0 /\ slice[2] = 0 /\ slice[3] = 0 /\ slice[4] >= 128
             THEN f32_neg(<< slice[1], slice[2], slice[3], slice[4] % 128 >>)
             ELSE slice

CustomEq(bass, mid, treble) == [bass |-> bass, mid |-> mid, treble |-> treble]

\* a bug: bass is read from the first slot and mid from the third
decode_custom_eq_swapped(payload) ==
    IF Len(payload) < 45 THEN None
    ELSE LET level(band) == decode_eq_float(Slice(payload, 6 + band * 13,
                                                  6 + band * 13 + 4))
         IN  Some(CustomEq(level(0), level(2), level(1)))

decode_custom_eq(payload) ==
    IF Len(payload) < 45 THEN None
    ELSE LET level(band) == decode_eq_float(Slice(payload, 6 + band * 13,
                                                  6 + band * 13 + 4))
         IN  Some(CustomEq(level(2), level(0), level(1)))

CUSTOM_EQ_TEMPLATE == <<
    \h03, \h00, \h00, \h00, \h00, \h01, \h00, \h00, \h00, \h00, \h00, \h00, \h75, \h44, \hc3,
    \hf5, \h28, \h3f, \h02, \h00, \h00, \h00, \h00, \h00, \hc0, \h5a, \h45, \h00, \h00, \h80,
    \h3f, \h00, \h00, \h00, \h00, \h00, \h00, \h00, \h0c, \h43, \hcd, \hcc, \h4c, \h3f, \h00,
    \h00, \h00, \h00, \h00, \h00, \h00, \h00, \h00 >>

\* payload[offset..offset + 4].copy_from_slice(&bytes)
copy_from_slice(payload, offset, bytes) ==
    [i \in 1..Len(payload) |->
        IF i > offset /\ i <= offset + Len(bytes) THEN bytes[i - offset]
        ELSE payload[i]]

encode_custom_eq(eq) ==
    LET values  == << eq.mid, eq.treble, eq.bass >>
        highest == f32_abs(f32_max(f32_max(f32_max(F32_ZERO, values[1]),
                                           values[2]), values[3]))
        total   == copy_from_slice(CUSTOM_EQ_TEMPLATE, 1,
                                   encode_eq_float(f32_neg(highest), TRUE))
        band1   == copy_from_slice(total, 6, encode_eq_float(values[1], FALSE))
        band2   == copy_from_slice(band1, 19, encode_eq_float(values[2], FALSE))
    IN  copy_from_slice(band2, 32, encode_eq_float(values[3], FALSE))

GestureSlot(device, common, gesture_type, action) ==
    [device |-> device, common |-> common, gesture_type |-> gesture_type,
     action |-> action]

\* a bug: the loop runs to the end of the payload whatever the count byte
RECURSIVE gestures_from_uncounted(_, _, _)
gestures_from_uncounted(payload, count, i) ==
    LET base == 1 + i * 4
    IN  IF base + 3 >= Len(payload) THEN << >>
        ELSE << GestureSlot(payload[base + 1], payload[base + 2],
                            payload[base + 3], payload[base + 4]) >>
             \o gestures_from_uncounted(payload, count, i + 1)

\* the loop of parse_gestures from entry i on
RECURSIVE gestures_from(_, _, _)
gestures_from(payload, count, i) ==
    IF i >= count THEN << >>
    ELSE LET base == 1 + i * 4
         IN  IF base + 3 >= Len(payload) THEN << >>
             ELSE << GestureSlot(payload[base + 1], payload[base + 2],
                                 payload[base + 3], payload[base + 4]) >>
                  \o gestures_from(payload, count, i + 1)

parse_gestures(payload) ==
    IF payload = << >> THEN << >> ELSE gestures_from(payload, payload[1], 0)

\* the loop of parse_led_colors from pixel index on
RECURSIVE led_colors_from(_, _, _)
led_colors_from(payload, count, index) ==
    IF index >= count THEN << >>
    ELSE LET base == 2 + index * 4
         IN  IF base + 2 >= Len(payload) THEN << >>
             ELSE << << payload[base + 1], payload[base + 2], payload[base + 3] >> >>
                  \o led_colors_from(payload, count, index + 1)

parse_led_colors(payload) ==
    IF payload = << >> THEN << >> ELSE led_colors_from(payload, payload[1], 0)


(***************************************************************************)
(* connection.rs, service.rs: constants and the table of operations        *)
(***************************************************************************)
READ_BUFFER_SIZE == 512
DEFAULT_TIMEOUT_MS == 2000

\* EarConnection.timeout, in milliseconds
timeout == DEFAULT_TIMEOUT_MS

\* pub mod command: the commands the operations send
protocol_command ==
    [ REQUEST_SERIAL |-> \hC006,
      REQUEST_BATTERY |-> \hC007,
      REQUEST_LED_CASE_COLORS |-> \hC017,
      REQUEST_GESTURES |-> \hC018,
      REQUEST_ANC |-> \hC01E,
      REQUEST_EQ |-> \hC01F,
      REQUEST_PERSONALIZED_ANC |-> \hC020,
      REQUEST_IN_EAR_STATUS |-> \hC00E,
      REQUEST_LATENCY_STATUS |-> \hC041,
      REQUEST_FIRMWARE |-> \hC042,
      REQUEST_CUSTOM_EQ |-> \hC044,
      REQUEST_ENHANCED_BASS |-> \hC04E,
      CMD_RING |-> \hF002,
      CMD_SET_GESTURE |-> \hF003,
      CMD_SET_IN_EAR |-> \hF004,
      CMD_SET_LED_CASE_COLORS |-> \hF00D,
      CMD_SET_ANC |-> \hF00F,
      CMD_SET_EQ |-> \hF010,
      CMD_SET_PERSONALIZED_ANC |-> \hF011,
      CMD_START_EAR_FIT_TEST |-> \hF014,
      CMD_SET_LATENCY |-> \hF040,
      CMD_SET_CUSTOM_EQ |-> \hF041,
      CMD_SET_ENHANCED_BASS |-> \hF051 ]

\* pub mod response: the commands of the replies
protocol_response ==
    [ SERIAL |-> \h4006,
      BATTERY_PRIMARY |-> \hE001,
      BATTERY_SECONDARY |-> \h4007,
      ANC_PRIMARY |-> \hE003,
      ANC_SECONDARY |-> \h401E,
      EQ_PRIMARY |-> \h401F,
      EQ_LISTENING_MODE |-> \h4050,
      FIRMWARE |-> \h4042,
      CUSTOM_EQ |-> \h4044,
      ENHANCED_BASS |-> \h404E,
      LED_CASE_COLORS |-> \h4017,
      GESTURES |-> \h4018,
      PERSONALIZED_ANC |-> \h4020,
      IN_EAR |-> \h400E,
      LATENCY |-> \h4041,
      EAR_FIT_RESULT |-> \hE00D ]


\* the operations that run a transaction, and their request commands
TransactCommand ==
    [detect_serial        |-> protocol_command.REQUEST_SERIAL,
     read_battery         |-> protocol_command.REQUEST_BATTERY,
     read_anc             |-> protocol_command.REQUEST_ANC,
     read_eq              |-> protocol_command.REQUEST_EQ,
     get_custom_eq        |-> protocol_command.REQUEST_CUSTOM_EQ,
     read_enhanced_bass   |-> protocol_command.REQUEST_ENHANCED_BASS,
     get_personalized_anc |-> protocol_command.REQUEST_PERSONALIZED_ANC,
     read_in_ear          |-> protocol_command.REQUEST_IN_EAR_STATUS,
     read_latency         |-> protocol_command.REQUEST_LATENCY_STATUS,
     read_firmware        |-> protocol_command.REQUEST_FIRMWARE,
     read_ear_fit_result  |-> protocol_command.CMD_START_EAR_FIT_TEST,
     read_gestures        |-> protocol_command.REQUEST_GESTURES,
     read_led_case_colors |-> protocol_command.REQUEST_LED_CASE_COLORS]

\* the operations that only send, and their commands
SendCommand ==
    [set_anc              |-> protocol_command.CMD_SET_ANC,
     set_eq_mode          |-> protocol_command.CMD_SET_EQ,
     set_custom_eq        |-> protocol_command.CMD_SET_CUSTOM_EQ,
     set_enhanced_bass    |-> protocol_command.CMD_SET_ENHANCED_BASS,
     set_personalized_anc |-> protocol_command.CMD_SET_PERSONALIZED_ANC,
     set_in_ear_detection |-> protocol_command.CMD_SET_IN_EAR,
     set_latency          |-> protocol_command.CMD_SET_LATENCY,
     launch_ear_fit_test  |-> protocol_command.CMD_START_EAR_FIT_TEST,
     set_gesture          |-> protocol_command.CMD_SET_GESTURE,
     set_led_case_colors  |-> protocol_command.CMD_SET_LED_CASE_COLORS,
     ring_buds            |-> protocol_command.CMD_RING]

TransactOps == DOMAIN TransactCommand
SendOps == DOMAIN SendCommand
Operations == TransactOps \cup SendOps

CommandOf(op) ==
    IF op \in TransactOps THEN TransactCommand[op] ELSE SendCommand[op]

\* the label the operation gives to transact
TimeoutLabel ==
    [detect_serial        |-> "serial",
     read_battery         |-> "battery",
     read_anc             |-> "anc",
     read_eq              |-> "eq",
     get_custom_eq        |-> "custom_eq",
     read_enhanced_bass   |-> "enhanced_bass",
     get_personalized_anc |-> "personalized_anc",
     read_in_ear          |-> "in_ear",
     read_latency         |-> "latency",
     read_firmware        |-> "firmware",
     read_ear_fit_result  |-> "ear_fit_result",
     read_gestures        |-> "gestures",
     read_led_case_colors |-> "case_led_colors"]

\* the label the operation gives to require_support
SupportLabel ==
    [read_anc             |-> "ANC read",
     set_anc              |-> "ANC write",
     get_custom_eq        |-> "custom EQ",
     set_custom_eq        |-> "custom EQ",
     read_enhanced_bass   |-> "enhanced bass",
     set_enhanced_bass    |-> "enhanced bass",
     get_personalized_anc |-> "personalized ANC",
     set_personalized_anc |-> "personalized ANC",
     read_in_ear          |-> "in-ear detection",
     set_in_ear_detection |-> "in-ear detection",
     read_led_case_colors |-> "case led color",
     set_led_case_colors  |-> "case led color"]

\* the operations that call require_support
GatedOps == DOMAIN SupportLabel

\* a bug: the ANC closures test for the wrong family
SupportPredicate_b174(op, base) ==
    CASE op \in { "read_anc", "set_anc" } -> base # "B174"
      [] op \in { "get_custom_eq", "set_custom_eq" } -> supports_custom_eq(base)
      [] op \in { "read_enhanced_bass", "set_enhanced_bass" } ->
            supports_enhanced_bass(base)
      [] op \in { "get_personalized_anc", "set_personalized_anc" } ->
            supports_personalized_anc(base)
      [] op \in { "read_in_ear", "set_in_ear_detection" } ->
            supports_in_ear_detection(base)
      [] op \in { "read_led_case_colors", "set_led_case_colors" } ->
            supports_case_led(base)

\* the predicate the operation gives to require_support
SupportPredicate(op, base) ==
    CASE op \in { "read_anc", "set_anc" } -> base # "B157"
      [] op \in { "get_custom_eq", "set_custom_eq" } -> supports_custom_eq(base)
      [] op \in { "read_enhanced_bass", "set_enhanced_bass" } ->
            supports_enhanced_bass(base)
      [] op \in { "get_personalized_anc", "set_personalized_anc" } ->
            supports_personalized_anc(base)
      [] op \in { "read_in_ear", "set_in_ear_detection" } ->
            supports_in_ear_detection(base)
      [] op \in { "read_led_case_colors", "set_led_case_colors" } ->
            supports_case_led(base)

Unsupported(label) == [tag |-> "Err", error |-> "Unsupported", label |-> label]
Timeout(label) == [tag |-> "Err", error |-> "Timeout", label |-> label]
CrcMismatch == [tag |-> "Err", error |-> "CrcMismatch"]
Io(kind) == [tag |-> "Err", error |-> "Io", kind |-> kind]
UnknownModel == [tag |-> "Err", error |-> "UnknownModel"]
Ok(v) == [tag |-> "Ok", value |-> v]

\* a bug: the label of the other ANC operation
require_support_read_label(op, base) ==
    IF SupportPredicate(op, base) THEN Ok("unit")
    ELSE Unsupported(IF op = "set_anc" THEN "ANC read" ELSE SupportLabel[op])

\* EarSessionHandle::require_support, given what model_base() returned
require_support(op, base) ==
    IF SupportPredicate(op, base) THEN Ok("unit")
    ELSE Unsupported(SupportLabel[op])

get(payload, i) == IF i < Len(payload) THEN Some(payload[i + 1]) ELSE None

unwrap_or_default(o) == IF o = None THEN 0 ELSE o.value

\* Option::map
map(o, f) == IF o = None THEN None ELSE Some(f[o.value])

\* the closure the operation gives to transact, applied to a packet
matcher(op, packet) ==
    LET command == packet.command
        payload == packet.payload
        is1     == [v \in 0..255 |-> v = 1]
        id      == [v \in 0..255 |-> v]
    IN  CASE op = "detect_serial" ->
               IF command = protocol_response.SERIAL THEN Some(payload) ELSE None
          [] op = "read_battery" ->
               IF command \in { protocol_response.BATTERY_PRIMARY,
                               protocol_response.BATTERY_SECONDARY }
               THEN Some(parse_battery_payload(payload)) ELSE None
          [] op = "read_anc" ->
               IF command \in { protocol_response.ANC_PRIMARY,
                               protocol_response.ANC_SECONDARY }
               THEN IF get(payload, 1) = None THEN None
                    ELSE from_device(get(payload, 1).value)
               ELSE None
          [] op = "read_eq" ->
               IF command \in { protocol_response.EQ_PRIMARY,
                               protocol_response.EQ_LISTENING_MODE }
               THEN map(get(payload, 0), id) ELSE None
          [] op = "get_custom_eq" ->
               IF command = protocol_response.CUSTOM_EQ THEN decode_custom_eq(payload) ELSE None
          [] op = "read_enhanced_bass" ->
               IF command = protocol_response.ENHANCED_BASS
               THEN Some([enabled |-> unwrap_or_default(get(payload, 0)) > 0,
                          level |-> unwrap_or_default(get(payload, 1)) \div 2])
               ELSE None
          [] op = "get_personalized_anc" ->
               IF command = protocol_response.PERSONALIZED_ANC THEN map(get(payload, 0), is1)
               ELSE None
          [] op = "read_in_ear" ->
               IF command = protocol_response.IN_EAR THEN map(get(payload, 2), is1) ELSE None
          [] op = "read_latency" ->
               IF command = protocol_response.LATENCY THEN map(get(payload, 0), is1) ELSE None
          [] op = "read_firmware" ->
               IF command = protocol_response.FIRMWARE THEN Some(trim(from_utf8_lossy(payload)))
               ELSE None
          [] op = "read_ear_fit_result" ->
               IF command = protocol_response.EAR_FIT_RESULT
               THEN Some([left |-> unwrap_or_default(get(payload, 0)),
                          right |-> unwrap_or_default(get(payload, 1))])
               ELSE None
          [] op = "read_gestures" ->
               IF command = protocol_response.GESTURES THEN Some(parse_gestures(payload)) ELSE None
          [] op = "read_led_case_colors" ->
               IF command = protocol_response.LED_CASE_COLORS THEN Some(parse_led_colors(payload))
               ELSE None

\* a bug: the flag is sent inverted
bit_inverted(b) == IF b THEN 0 ELSE 1

\* u8::saturating_mul
saturating_mul(a, b) == IF a * b > 255 THEN 255 ELSE a * b

bit(b) == IF b THEN \h01 ELSE \h00

\* a bug: the pixel index is left out of the group
RECURSIVE led_payload_from_bare(_, _)
led_payload_from_bare(pixels, index) ==
    IF index >= Len(pixels) THEN << >>
    ELSE pixels[index + 1] \o led_payload_from_bare(pixels, index + 1)

\* the payload of set_led_case_colors from pixel index on
RECURSIVE led_payload_from(_, _)
led_payload_from(pixels, index) ==
    IF index >= Len(pixels) THEN << >>
    ELSE << (index + 1) % 256 >> \o pixels[index + 1]
         \o led_payload_from(pixels, index + 1)

\* the payload the operation sends; base is what model_base() returned to
\* ring_buds
request_payload(op, arg, base) ==
    CASE op = "read_ear_fit_result" -> << \h00 >>
      [] op \in TransactOps \ { "read_ear_fit_result" } -> << >>
      [] op = "set_anc" -> << \h01, to_device(arg.level), \h00 >>
      [] op = "set_eq_mode" -> << arg.mode, \h00 >>
      [] op = "set_custom_eq" -> encode_custom_eq(arg.eq)
      [] op = "set_enhanced_bass" ->
            << bit(arg.enabled), saturating_mul(arg.level, 2) >>
      [] op = "set_personalized_anc" -> << bit(arg.enabled) >>
      [] op = "set_in_ear_detection" -> << \h01, \h01, bit(arg.enabled) >>
      [] op = "set_latency" ->
            IF arg.enabled THEN << \h01, \h00 >> ELSE << \h02, \h00 >>
      [] op = "launch_ear_fit_test" -> << \h01 >>
      [] op = "set_gesture" ->
            << \h01, arg.slot.device, arg.slot.common, arg.slot.gesture_type,
               arg.slot.action >>
      [] op = "set_led_case_colors" ->
            << Len(arg.pixels) % 256 >> \o led_payload_from(arg.pixels, 0)
      [] op = "ring_buds" ->
            IF base = "B181" THEN << bit(arg.enable) >>
            ELSE << IF arg.side = Some("Left") THEN \h02 ELSE \h03,
                    bit(arg.enable) >>


(***************************************************************************)
(* The codec under a byte stream.                                          *)
(*   buffer    the read accumulator try_parse works on                     *)
(*   stream    the bytes the device has sent that are not yet appended     *)
(*   result    what the last try_parse returned ("Pending": bytes were     *)
(*             appended and try_parse has not been called since)           *)
(*   pre       the buffer as it was when the last try_parse was called,   *)
(*             empty while the result is "Pending"                         *)
(*   scenario  what the device sent: noise, frames, their encodings        *)
(*   yielded   the packets and errors try_parse has returned, in order     *)
(*   waited    some try_parse returned Ok(None) on a non-empty buffer      *)
(***************************************************************************)
VARIABLES buffer, stream, result, pre, scenario, yielded, waited

codecVars == << buffer, stream, result, pre, scenario, yielded, waited >>


(***************************************************************************)
(* The session under concurrent callers.                                   *)
(*   model         EarSession.model: None or Some(descriptor)              *)
(*   conn_owner    the task holding EarSession.connection, 0 = unlocked    *)
(*   operation_id  EarConnection.operation_id                              *)
(*   read_buffer   EarConnection.read_buffer                               *)
(*   channel       bytes the device has sent that no read has returned yet *)
(*   wire          bytes written to the device                             *)
(*   closed        the device has closed the stream                        *)
(*   pc            where each task is in its operation                     *)
(*   call          the operation of each task: op, arg, the base that      *)
(*                 model_base() returned to it, the operation id of its    *)
(*                 request                                                 *)
(*   ret           what the operation returned                             *)
(*   deadline      the deadlines of transact and of the running            *)
(*                 read_packet, as the time left until they pass, in       *)
(*                 milliseconds                                            *)
(*   outbox        the bytes of the request that write_all has yet to write*)
(*   seen          the packets read_packet returned to the task's transact *)
(*   sent          the frames handed to write_all, with the task           *)
(*   dev_sent      the frames the device has sent, each with the number of *)
(*                 request frames handed to write_all before it            *)
(***************************************************************************)
VARIABLES model, conn_owner, operation_id, read_buffer, channel, wire, closed,
          pc, call, ret, deadline, outbox, seen, sent, dev_sent

sessionVars ==
    << model, conn_owner, operation_id, read_buffer, channel, wire, closed,
       pc, call, ret, deadline, outbox, seen, sent, dev_sent >>

(***************************************************************************)
(* The manager (service.rs, EarManager) and the sessions it has created.   *)
(*                                                                         *)
(*   manager_session  EarManager.session: 0 for None, else the number of   *)
(*                    the session in the slot                              *)
(*   write_guard      the task holding the write lock of the slot, or 0    *)
(*   sessions         the sessions created so far, in order of creation:   *)
(*                    the strong count of the Arc<EarSession> and whether  *)
(*                    the RFCOMM stream of its connection is open          *)
(*   handle           the session of the EarSessionHandle a task holds, or *)
(*                    0 if it holds none                                   *)
(*   mpc              where a task is in its manager call                  *)
(*   mret             the result of a task's last manager call or          *)
(*                    operation                                            *)
(***************************************************************************)
VARIABLES manager_session, write_guard, sessions, handle, mpc, mret

managerVars == << manager_session, write_guard, sessions, handle, mpc, mret >>

(***************************************************************************)
(* The pure functions of service.rs, protocol.rs and types.rs on their own.*)
(*   input    the function to apply and its argument                       *)
(*   output   Pending, or what the function returned                       *)
(***************************************************************************)
VARIABLES input, output

pureVars == << input, output >>

(***************************************************************************)
(* The locks of a manager and its session, and the tasks that take them:   *)
(*   guards   for each lock the guards that are alive: who holds it, and   *)
(*            whether for reading or for writing                           *)
(*   waiters  for each lock the tasks whose lock().await, read().await or  *)
(*            write().await is pending, first come first                   *)
(*   lpc      for each task the operation it is in and the place in it     *)
(***************************************************************************)
VARIABLES guards, waiters, lpc

lockVars == << guards, waiters, lpc >>

vars == << codecVars, sessionVars, managerVars, pureVars, lockVars >>

Tasks == { 1, 2 }

ModelDescriptor(base, model_id, name, sku, serial) ==
    [base |-> base, model_id |-> model_id, name |-> name, sku |-> sku,
     serial |-> serial]

\* EarSessionHandle::model_base
model_base(m) == IF m = None THEN "Unknown" ELSE m.value.base

\* a bug: the counter wraps where a u8 does
next_operation_id_u8(op_id) ==
    LET next == (op_id + 1) % 256 IN IF next > 1 THEN next ELSE 1

\* EarConnection::next_operation_id: the new value of the counter
next_operation_id(op_id) ==
    IF op_id >= 250 THEN 1
    ELSE LET next == (op_id + 1) % 256 IN IF next > 1 THEN next ELSE 1

\* a bug: the connection mutex is handed out while it is held
try_lock_held(owner) == TRUE

\* tokio::sync::Mutex::lock completes when the mutex is free
try_lock(owner) == owner = 0

NoDeadline == [transact |-> 0, read |-> 0]

Pending == [tag |-> "Pending"]

NoCall == [op |-> "none"]

\* EarManager::new, and no task in a manager call
InitManager ==
    /\ manager_session = 0
    /\ write_guard = 0
    /\ sessions = << >>
    /\ handle = [t \in Tasks |-> 0]
    /\ mpc = [t \in Tasks |-> "idle"]
    /\ mret = [t \in Tasks |-> [op |-> "none", tag |-> "Pending", session |-> 0]]

\* what a pure function returned
Returned(v) == [tag |-> "Returned", value |-> v]

\* the locks of the manager and of the session
Locks ==
    { "session", "connection", "model", "operation_id", "writer",
      "read_buffer", "reader" }

\* every lock is free and no task is in an operation
IdleLocks ==
    /\ guards = [l \in Locks |-> {}]
    /\ waiters = [l \in Locks |-> << >>]
    /\ lpc = [t \in Tasks |-> [op |-> "none", place |-> "idle"]]

\* no pure function is under test
IdlePure ==
    /\ input = [fn |-> "none"]
    /\ output = Pending

InitSession ==
    /\ model = None
    /\ conn_owner = 0
    /\ operation_id = 1
    /\ read_buffer = << >>
    /\ channel = << >>
    /\ wire = << >>
    /\ closed = FALSE
    /\ pc = [t \in Tasks |-> "idle"]
    /\ call = [t \in Tasks |-> NoCall]
    /\ ret = [t \in Tasks |-> Pending]
    /\ deadline = [t \in Tasks |-> NoDeadline]
    /\ outbox = [t \in Tasks |-> << >>]
    /\ seen = [t \in Tasks |-> << >>]
    /\ sent = << >>
    /\ dev_sent = << >>

(***************************************************************************)
(* The codec under a byte stream: inputs and actions.                      *)
(***************************************************************************)
\* the command and operation id of the frames: one pair of plain values, one
\* whose bytes are bytes of the magic
FrameHeads ==
    { [command |-> \hC007, operation_id |-> \h10],
      [command |-> \h6055, operation_id |-> \h55] }
PayloadBytes == { \h55, \h60, \h01 }
NoiseBytes == { \hAA, \h55, \h60, \h01 }
\* the payloads of the frames of a stream of several frames and of a frame
\* with a wrong CRC
ShortPayloads == { << >>, << \h55 >> }
\* added to the CRC of a frame to corrupt it
CrcDeltas == { \h0001, \h0100 }

SeqsUpTo(S, lo, hi) == UNION { [1..k -> S] : k \in lo..hi }

FrameInput(head, payload) ==
    [command |-> head.command, operation_id |-> head.operation_id,
     payload |-> payload]

\* one frame with a payload of up to maxlen bytes
FrameInputs(maxlen) ==
    { FrameInput(h, p) : h \in FrameHeads, p \in SeqsUpTo(PayloadBytes, 0, maxlen) }

\* the frame that follows noise or a frame with a wrong CRC
PlainFrame == [command |-> \hC007, operation_id |-> \h10, payload |-> << >>]

PacketOf(f) == EarPacket(f.command, f.operation_id, f.payload)

EncodeInput(f) == encode(f.command, f.operation_id, f.payload)

\* the frame of f with delta added to its CRC
Corrupted(f, delta) ==
    LET body == encode_body(f.command, f.operation_id, f.payload)
    IN  body \o to_le_bytes((crc16(body) + delta) % 65536)

Scenario(kind, noise, frames, delta) ==
    [kind |-> kind, noise |-> noise, frames |-> frames,
     wire |-> [i \in 1..Len(frames) |->
                  IF i = 1 /\ delta # 0 THEN Corrupted(frames[i], delta)
                  ELSE EncodeInput(frames[i])]]

\* a stream of n frames: the i-th frame carries command 0xC007 and operation
\* id i
StreamInputs(n) ==
    { [i \in 1..n |-> [command |-> \hC007, operation_id |-> i,
                       payload |-> ps[i]]] : ps \in [1..n -> ShortPayloads] }

\* valid frames only: one frame of any payload, or several short ones
ValidScenarios ==
    { Scenario("valid", << >>, << f >>, 0) : f \in FrameInputs(MaxPayload) }
    \cup UNION { { Scenario("valid", << >>, fs, 0) : fs \in StreamInputs(n) } :
                   n \in 2..MaxFrames }

\* noise in front of one valid frame
NoiseScenarios ==
    { Scenario("noise", n, << PlainFrame >>, 0) :
        n \in SeqsUpTo(NoiseBytes, 1, MaxNoise) }

\* a frame with a wrong CRC, alone or in front of a valid frame
CorruptScenarios ==
    { Scenario("corrupt", << >>, << FrameInput(h, p) >> \o tail, d) :
        h \in FrameHeads, p \in ShortPayloads, d \in CrcDeltas,
        tail \in { << >>, << PlainFrame >> } }

InitCodec ==
    /\ scenario \in ValidScenarios \cup NoiseScenarios \cup CorruptScenarios
    /\ stream = scenario.noise \o Concat(scenario.wire)
    /\ buffer = << >>
    /\ result = [tag |-> "Pending"]
    /\ pre = << >>
    /\ yielded = << >>
    /\ waited = FALSE
    /\ InitSession
    /\ InitManager
    /\ IdlePure
    /\ IdleLocks

\* reader.read returned n > 0 bytes and they were appended to the accumulator;
\* read_packet reads only after try_parse returned Ok(None)
Feed ==
    /\ result.tag = "None"
    /\ \E n \in 1..Len(stream) :
         /\ buffer' = buffer \o SubSeq(stream, 1, n)
         /\ stream' = SubSeq(stream, n + 1, Len(stream))
    /\ result' = [tag |-> "Pending"]
    /\ pre' = << >>
    /\ UNCHANGED << scenario, yielded, waited >>
    /\ UNCHANGED sessionVars
    /\ UNCHANGED managerVars
    /\ UNCHANGED pureVars
    /\ UNCHANGED lockVars

\* one call of EarPacket::try_parse on the accumulator
Parse ==
    LET r == try_parse(buffer)
    IN  /\ buffer' = r.buffer
        /\ pre' = buffer
        /\ result' = IF r.tag = "Some"
                     THEN [tag |-> "Some", packet |-> r.packet]
                     ELSE [tag |-> r.tag]
        /\ yielded' = CASE r.tag = "Some" -> Append(yielded, r.packet)
                        [] r.tag = "Err"  -> Append(yielded, [error |-> "CrcMismatch"])
                        [] OTHER          -> yielded
        /\ waited' = (waited \/ (r.tag = "None" /\ buffer # << >>))
        /\ UNCHANGED << stream, scenario >>
        /\ UNCHANGED sessionVars
        /\ UNCHANGED managerVars
        /\ UNCHANGED pureVars
        /\ UNCHANGED lockVars

NextCodec == Feed \/ Parse

SpecCodec == InitCodec /\ [][NextCodec]_vars

(***************************************************************************)
(* Claims about the codec, checked under SpecCodec.                        *)
(***************************************************************************)
Called == result.tag # "Pending"

OneValidFrame == scenario.kind = "valid" /\ Len(scenario.frames) = 1

Expected == [i \in 1..Len(scenario.frames) |-> PacketOf(scenario.frames[i])]

\* the three-byte magic begins at some index of n
ContainsMagic(n) ==
    \E i \in 1..(Len(n) - 2) : SubSeq(n, i, i + 2) = HEADER_MAGIC

\* C1: try_parse on a buffer holding exactly encode(command, operation_id,
\* payload) returns Ok(Some(packet)) with that command, operation id and
\* payload, and leaves the buffer empty.
C1_RoundTrip ==
    (Called /\ OneValidFrame /\ pre = scenario.wire[1])
        => /\ result = [tag |-> "Some", packet |-> PacketOf(scenario.frames[1])]
           /\ buffer = << >>

\* the round trip of a frame whose payload is the magic itself
C1_Witness ==
    /\ Called /\ OneValidFrame /\ pre = scenario.wire[1]
    /\ scenario.frames[1].payload = HEADER_MAGIC
    /\ result.tag = "Some"

\* C2: a stream of valid frames, delivered in any fragmentation and parsed
\* after each chunk until Ok(None), yields exactly the packets of the frames,
\* once each and in order, never an error, and the buffer is empty after the
\* last chunk.
C2_Stream ==
    scenario.kind = "valid"
        => /\ result.tag # "Err"
           /\ IsPrefix(yielded, Expected)
           /\ (stream = << >> /\ result.tag = "None")
                 => (yielded = Expected /\ buffer = << >>)

\* a stream of several frames was delivered in pieces and is parsed to its end
C2_Witness ==
    /\ scenario.kind = "valid" /\ Len(scenario.frames) = MaxFrames
    /\ stream = << >> /\ result.tag = "None" /\ waited
    /\ yielded = Expected

\* C3: try_parse on a proper prefix F[0..k] of a valid frame F returns
\* Ok(None) and leaves the buffer unchanged; once the remaining bytes are
\* appended the next try_parse returns the packet of F.
C3_Incomplete ==
    (Called /\ OneValidFrame)
        => /\ (Len(pre) < Len(scenario.wire[1]) /\ IsPrefix(pre, scenario.wire[1]))
                 => (result.tag = "None" /\ buffer = pre)
           /\ (waited /\ Len(pre) >= Len(scenario.wire[1]))
                 => /\ pre = scenario.wire[1]
                    /\ result = [tag |-> "Some",
                                 packet |-> PacketOf(scenario.frames[1])]

\* a frame was cut behind its header, waited for, and then parsed
C3_Witness ==
    /\ OneValidFrame /\ waited
    /\ pre = scenario.wire[1]
    /\ result.tag = "Some"

\* C4: one try_parse on N ++ F, N a noise prefix in which the magic does not
\* begin, discards all of N, returns the packet of F and leaves the buffer
\* empty.
C4_Noise ==
    (/\ Called /\ scenario.kind = "noise"
     /\ pre = scenario.noise \o scenario.wire[1]
     /\ ~ContainsMagic(scenario.noise))
        => /\ result = [tag |-> "Some", packet |-> PacketOf(scenario.frames[1])]
           /\ buffer = << >>

\* the noise 0xAA 0x55 0xAA: one byte in front of a 0x55 that is not a magic
C4_Witness ==
    /\ Called /\ scenario.kind = "noise"
    /\ scenario.noise = << \hAA, \h55, \hAA >>
    /\ pre = scenario.noise \o scenario.wire[1]
    /\ result.tag = "Some" /\ buffer = << >>

\* C5: on a buffer that starts with a complete frame whose CRC is wrong
\* try_parse returns Err(CrcMismatch) and removes exactly that frame; a valid
\* frame directly behind it is returned by the next call.
C5_CrcMismatch ==
    (Called /\ scenario.kind = "corrupt")
        => /\ IsPrefix(scenario.wire[1], pre)
                 => /\ result.tag = "Err"
                    /\ buffer = SubSeq(pre, Len(scenario.wire[1]) + 1, Len(pre))
           /\ (Len(scenario.frames) = 2 /\ IsPrefix(scenario.wire[2], pre))
                 => /\ yielded = << [error |-> "CrcMismatch"],
                                    PacketOf(scenario.frames[2]) >>
                    /\ buffer = << >>

\* the corrupt frame and the valid one arrived together; the second call
\* returned the valid one
C5_Witness ==
    /\ scenario.kind = "corrupt" /\ Len(scenario.frames) = 2
    /\ ~waited
    /\ pre = scenario.wire[2]
    /\ result.tag = "Some"
    /\ Len(yielded) = 2

(***************************************************************************)
(* The session: actions.                                                   *)
(***************************************************************************)
IdleCodec ==
    /\ buffer = << >>
    /\ stream = << >>
    /\ result = [tag |-> "Pending"]
    /\ pre = << >>
    /\ scenario = [kind |-> "session"]
    /\ yielded = << >>
    /\ waited = FALSE

Init == InitSession /\ IdleCodec /\ InitManager /\ IdlePure /\ IdleLocks

\* the operation returns r; the guard of the connection mutex, if the task
\* holds it, is dropped
Return(t, r) ==
    /\ pc' = [pc EXCEPT ![t] = "done"]
    /\ ret' = [ret EXCEPT ![t] = r]
    /\ deadline' = [deadline EXCEPT ![t] = NoDeadline]
    /\ conn_owner' = IF conn_owner = t THEN 0 ELSE conn_owner

\* a task calls a session operation: a gated one runs require_support, which
\* reads the base and returns Unsupported at once if the predicate fails;
\* ring_buds reads the base; the others go straight for the connection mutex
Call(t, c) ==
    /\ pc[t] = "idle"
    /\ LET base == model_base(model)
       IN  IF c.op \in GatedOps
           THEN /\ call' = [call EXCEPT ![t] = [op |-> c.op, arg |-> c.arg,
                                                base |-> base, operation |-> 0,
                                                payload |-> << >>]]
                /\ IF require_support(c.op, base).tag = "Ok"
                   THEN /\ pc' = [pc EXCEPT ![t] = "lock"]
                        /\ UNCHANGED << ret, deadline, conn_owner >>
                   ELSE Return(t, require_support(c.op, base))
           ELSE /\ call' = [call EXCEPT ![t] =
                              [op |-> c.op, arg |-> c.arg,
                               base |-> IF c.op = "ring_buds" THEN base
                                        ELSE "unread",
                               operation |-> 0, payload |-> << >>]]
                /\ pc' = [pc EXCEPT ![t] = "lock"]
                /\ UNCHANGED << ret, deadline, conn_owner >>
    /\ UNCHANGED << model, operation_id, read_buffer, channel, wire, closed,
                    outbox, seen, sent, dev_sent >>
    /\ UNCHANGED codecVars
    /\ UNCHANGED managerVars
    /\ UNCHANGED pureVars
    /\ UNCHANGED lockVars

\* self.inner.connection.lock().await completes
Lock(t) ==
    /\ pc[t] = "lock"
    /\ try_lock(conn_owner)
    /\ conn_owner' = t
    /\ pc' = [pc EXCEPT ![t] = "send"]
    /\ UNCHANGED << model, operation_id, read_buffer, channel, wire, closed,
                    call, ret, deadline, outbox, seen, sent, dev_sent >>
    /\ UNCHANGED codecVars
    /\ UNCHANGED managerVars
    /\ UNCHANGED pureVars
    /\ UNCHANGED lockVars

\* send_command up to the first write: the counter advances, the frame is
\* encoded, and write_all starts writing: the writer takes the header and the
\* task waits for it to take the rest; on a closed stream the write fails and
\* the operation returns an Io error
Send(t) ==
    /\ pc[t] = "send"
    /\ LET operation == next_operation_id(operation_id)
           packet    == encode(CommandOf(call[t].op), operation,
                               request_payload(call[t].op, call[t].arg,
                                               call[t].base))
       IN  /\ operation_id' = operation
           /\ call' = [call EXCEPT ![t].operation = operation]
           /\ IF closed
              THEN /\ Return(t, Io("Other"))
                   /\ UNCHANGED << wire, outbox, sent >>
              ELSE /\ sent' = Append(sent, [task |-> t, frame |-> packet])
                   /\ wire' = wire \o SubSeq(packet, 1, HEADER_LEN)
                   /\ outbox' = [outbox EXCEPT ![t] =
                                   SubSeq(packet, HEADER_LEN + 1, Len(packet))]
                   /\ pc' = [pc EXCEPT ![t] = "flush"]
                   /\ UNCHANGED << ret, deadline, conn_owner >>
    /\ UNCHANGED << model, read_buffer, channel, closed, seen, dev_sent >>
    /\ UNCHANGED codecVars
    /\ UNCHANGED managerVars
    /\ UNCHANGED pureVars
    /\ UNCHANGED lockVars

\* the rest of send_command: write_all writes what is left, flush; a send-only
\* operation returns Ok(()), transact sets its deadline and enters read_packet,
\* which sets its own
Flush(t) ==
    /\ pc[t] = "flush"
    /\ wire' = wire \o outbox[t]
    /\ outbox' = [outbox EXCEPT ![t] = << >>]
    /\ IF call[t].op \in SendOps
       THEN Return(t, Ok("unit"))
       ELSE /\ deadline' = [deadline EXCEPT ![t] =
                              [transact |-> timeout, read |-> timeout]]
            /\ pc' = [pc EXCEPT ![t] = "parse"]
            /\ UNCHANGED << ret, conn_owner >>
    /\ UNCHANGED << model, operation_id, read_buffer, channel, closed, call,
                    seen, sent, dev_sent >>
    /\ UNCHANGED codecVars
    /\ UNCHANGED managerVars
    /\ UNCHANGED pureVars
    /\ UNCHANGED lockVars

\* a bug: the matcher also wants the operation id of the request
accepts_operation(t, packet) ==
    /\ matcher(call[t].op, packet) # None
    /\ packet.operation_id = call[t].operation

\* transact's test of what the matcher returned
accepts(t, packet) == matcher(call[t].op, packet) # None

\* read_packet calls try_parse.  On a packet the matcher is asked: Some ends
\* the transaction (detect_serial releases the mutex and goes on with the
\* payload), None drops the packet and, unless transact's deadline has passed,
\* starts the next read_packet.  On a CRC error the transaction ends.  On
\* Ok(None) read_packet gives up if its deadline has passed and reads otherwise.
ParseStep(t) ==
    /\ pc[t] = "parse"
    /\ LET r == try_parse(read_buffer)
       IN  /\ read_buffer' = r.buffer
           /\ CASE r.tag = "Err" ->
                     /\ Return(t, CrcMismatch)
                     /\ UNCHANGED << seen, call >>
                [] r.tag = "Some" ->
                     /\ seen' = [seen EXCEPT ![t] = Append(@, r.packet)]
                     /\ IF accepts(t, r.packet)
                        THEN IF call[t].op = "detect_serial"
                             THEN /\ pc' = [pc EXCEPT ![t] = "resolve"]
                                  /\ call' = [call EXCEPT ![t].payload =
                                        matcher(call[t].op, r.packet).value]
                                  /\ deadline' = [deadline EXCEPT ![t] = NoDeadline]
                                  /\ conn_owner' = 0
                                  /\ UNCHANGED ret
                             ELSE /\ Return(t, Ok(matcher(call[t].op, r.packet).value))
                                  /\ UNCHANGED call
                        ELSE IF deadline[t].transact = 0
                             THEN /\ Return(t, Timeout(TimeoutLabel[call[t].op]))
                                  /\ UNCHANGED call
                             ELSE /\ deadline' = [deadline EXCEPT ![t].read =
                                                    timeout]
                                  /\ UNCHANGED << pc, ret, conn_owner, call >>
                [] r.tag = "None" ->
                     /\ UNCHANGED << seen, call >>
                     /\ IF deadline[t].read = 0
                        THEN Return(t, Timeout("read packet"))
                        ELSE /\ pc' = [pc EXCEPT ![t] = "read"]
                             /\ UNCHANGED << ret, deadline, conn_owner >>
    /\ UNCHANGED << model, operation_id, channel, wire, closed, outbox, sent,
                    dev_sent >>
    /\ UNCHANGED codecVars
    /\ UNCHANGED managerVars
    /\ UNCHANGED pureVars
    /\ UNCHANGED lockVars

\* reader.read returns n > 0 bytes, at most READ_BUFFER_SIZE, and they are
\* appended to the accumulator
ReadBytes(t) ==
    /\ pc[t] = "read"
    /\ channel # << >>
    /\ LET n == IF Len(channel) < READ_BUFFER_SIZE THEN Len(channel)
                ELSE READ_BUFFER_SIZE
       IN  /\ read_buffer' = read_buffer \o SubSeq(channel, 1, n)
           /\ channel' = SubSeq(channel, n + 1, Len(channel))
    /\ pc' = [pc EXCEPT ![t] = "parse"]
    /\ UNCHANGED << model, conn_owner, operation_id, wire, closed, call, ret,
                    deadline, outbox, seen, sent, dev_sent >>
    /\ UNCHANGED codecVars
    /\ UNCHANGED managerVars
    /\ UNCHANGED pureVars
    /\ UNCHANGED lockVars

\* reader.read returns 0: the stream is closed and drained
ReadEof(t) ==
    /\ pc[t] = "read"
    /\ channel = << >>
    /\ closed
    /\ Return(t, Io("UnexpectedEof"))
    /\ UNCHANGED << model, operation_id, read_buffer, channel, wire, closed,
                    call, outbox, seen, sent, dev_sent >>
    /\ UNCHANGED codecVars
    /\ UNCHANGED managerVars
    /\ UNCHANGED pureVars
    /\ UNCHANGED lockVars

\* a bug: reader.read is awaited without time::timeout
ReadTimeout_never(t) == FALSE

\* time::timeout elapses before the read returns anything
ReadTimeout(t) ==
    /\ pc[t] = "read"
    /\ channel = << >>
    /\ ~closed
    /\ deadline[t].read = 0
    /\ Return(t, Timeout("read packet"))
    /\ UNCHANGED << model, operation_id, read_buffer, channel, wire, closed,
                    call, outbox, seen, sent, dev_sent >>
    /\ UNCHANGED codecVars
    /\ UNCHANGED managerVars
    /\ UNCHANGED pureVars
    /\ UNCHANGED lockVars

\* detect_serial behind its transaction: the serial is parsed, the SKU derived,
\* the model looked up; if one is found the descriptor is replaced
Resolve(t) ==
    /\ pc[t] = "resolve"
    /\ LET serial == parse_serial_number(call[t].payload)
           derived == IF serial = None THEN None
                      ELSE derive_sku_from_serial(serial.value)
           info == IF derived.tag = "Some" THEN model_from_sku(derived.value)
                   ELSE None
       IN  IF derived = Panic
           THEN /\ Return(t, Panic)
                /\ UNCHANGED model
           ELSE /\ model' = IF info = None THEN model
                            ELSE Some(ModelDescriptor(info.value.base,
                                        Some(info.value.id),
                                        Some(info.value.name), derived, serial))
                /\ Return(t, Ok([serial_number |-> serial, sku |-> derived,
                                 model_id |-> IF info = None THEN None
                                              ELSE Some(info.value.id)]))
    /\ UNCHANGED << operation_id, read_buffer, channel, wire, closed, call,
                    outbox, seen, sent, dev_sent >>
    /\ UNCHANGED codecVars
    /\ UNCHANGED managerVars
    /\ UNCHANGED pureVars
    /\ UNCHANGED lockVars

\* a caller sets the model by its base
set_model_base(base) ==
    /\ model' = Some(ModelDescriptor(base, None, None, None, None))
    /\ UNCHANGED << conn_owner, operation_id, read_buffer, channel, wire,
                    closed, pc, call, ret, deadline, outbox, seen, sent,
                    dev_sent >>
    /\ UNCHANGED codecVars
    /\ UNCHANGED managerVars
    /\ UNCHANGED pureVars
    /\ UNCHANGED lockVars

(***************************************************************************)
(* The device and the clock.                                               *)
(***************************************************************************)
Ascii7(text) == << 0, 0, 0, 0, 0, 0, 0 >> \o text

\* "x,4,SH0128AA" and a line feed
SerialLineEar2 == << 120, 44, 52, 44, 83, 72, 48, 49, 50, 56, 65, 65, 10 >>

\* "x,4,MA0000"
SerialLineShortMA == << 120, 44, 52, 44, 77, 65, 48, 48, 48, 48 >>

\* what the device may answer to a request, by the request's command
DeviceReplies(command) ==
    CASE command = protocol_command.REQUEST_SERIAL ->
            { [command |-> protocol_response.SERIAL, payload |-> Ascii7(SerialLineEar2)],
              [command |-> protocol_response.SERIAL, payload |-> Ascii7(SerialLineShortMA)] }
      [] command = protocol_command.REQUEST_BATTERY ->
            { [command |-> protocol_response.BATTERY_SECONDARY, payload |-> << 1, \h02, \hD0 >>] }
      [] command = protocol_command.REQUEST_ANC ->
            { [command |-> protocol_response.ANC_SECONDARY, payload |-> << 1, \h05 >>],
              [command |-> protocol_response.ANC_PRIMARY, payload |-> << 1, \h09 >>] }
      [] command = protocol_command.REQUEST_EQ ->
            { [command |-> protocol_response.EQ_PRIMARY, payload |-> << 3 >>] }
      [] command = protocol_command.REQUEST_CUSTOM_EQ ->
            { [command |-> protocol_response.CUSTOM_EQ, payload |-> CUSTOM_EQ_TEMPLATE],
              [command |-> protocol_response.CUSTOM_EQ, payload |-> << >>] }
      [] command = protocol_command.REQUEST_ENHANCED_BASS ->
            { [command |-> protocol_response.ENHANCED_BASS, payload |-> << 1, 4 >>] }
      [] command = protocol_command.REQUEST_PERSONALIZED_ANC ->
            { [command |-> protocol_response.PERSONALIZED_ANC, payload |-> << 1 >>] }
      [] command = protocol_command.REQUEST_IN_EAR_STATUS ->
            { [command |-> protocol_response.IN_EAR, payload |-> << 1, 1, 1 >>] }
      [] command = protocol_command.REQUEST_LATENCY_STATUS ->
            { [command |-> protocol_response.LATENCY, payload |-> << 1 >>] }
      [] command = protocol_command.REQUEST_FIRMWARE ->
            { [command |-> protocol_response.FIRMWARE, payload |-> << 49, 46, 48, 32 >>] }
      [] command = protocol_command.CMD_START_EAR_FIT_TEST ->
            { [command |-> protocol_response.EAR_FIT_RESULT, payload |-> << 1, 2 >>] }
      [] command = protocol_command.REQUEST_GESTURES ->
            { [command |-> protocol_response.GESTURES, payload |-> << 1, 2, 1, 2, 8 >>] }
      [] command = protocol_command.REQUEST_LED_CASE_COLORS ->
            { [command |-> protocol_response.LED_CASE_COLORS, payload |-> << 1, 1, 255, 0, 0 >>] }
      [] OTHER -> {}

\* the command and the operation id of a frame
FrameCommand(frame) == from_le_bytes(frame[4], frame[5])
FrameOperation(frame) == frame[8]

\* the device puts the frame of a packet on the channel
DeviceWrite(packet) ==
    LET frame == encode(packet.command, packet.operation_id, packet.payload)
    IN  /\ channel' = channel \o frame
        /\ dev_sent' = Append(dev_sent, [packet |-> packet, frame |-> frame,
                                          after |-> Len(sent)])

\* write_all has written the whole of the i-th frame
FullyWritten(i) ==
    \/ outbox[sent[i].task] = << >>
    \/ \E j \in (i + 1)..Len(sent) : sent[j].task = sent[i].task

\* the device answers a request it has received in full, echoing its
\* operation id
DeviceReply ==
    /\ ~closed
    /\ Len(dev_sent) < MaxDeviceFrames
    /\ \E i \in 1..Len(sent) :
         /\ FullyWritten(i)
         /\ \E reply \in DeviceReplies(FrameCommand(sent[i].frame)) :
              DeviceWrite(EarPacket(reply.command,
                                    FrameOperation(sent[i].frame),
                                    reply.payload))
    /\ UNCHANGED << model, conn_owner, operation_id, read_buffer, wire,
                    closed, pc, call, ret, deadline, outbox, seen, sent >>
    /\ UNCHANGED codecVars
    /\ UNCHANGED managerVars
    /\ UNCHANGED pureVars
    /\ UNCHANGED lockVars

\* the device reports its battery unasked, with operation id 0
DeviceNotify ==
    /\ ~closed
    /\ Len(dev_sent) < MaxDeviceFrames
    /\ DeviceWrite(EarPacket(protocol_response.BATTERY_PRIMARY, 0, << 1, \h04, \h32 >>))
    /\ UNCHANGED << model, conn_owner, operation_id, read_buffer, wire,
                    closed, pc, call, ret, deadline, outbox, seen, sent >>
    /\ UNCHANGED codecVars
    /\ UNCHANGED managerVars
    /\ UNCHANGED pureVars
    /\ UNCHANGED lockVars

\* the device closes the stream
DeviceClose ==
    /\ ~closed
    /\ closed' = TRUE
    /\ UNCHANGED << model, conn_owner, operation_id, read_buffer, channel,
                    wire, pc, call, ret, deadline, outbox, seen, sent,
                    dev_sent >>
    /\ UNCHANGED codecVars
    /\ UNCHANGED managerVars
    /\ UNCHANGED pureVars
    /\ UNCHANGED lockVars

\* v.saturating_sub(d)
saturating_sub(v, d) == IF v > d THEN v - d ELSE 0

\* time passes while a transaction has a deadline ahead of it: its deadlines
\* come a tick nearer
Tick ==
    /\ \E t \in Tasks : pc[t] \in { "parse", "read" } /\ deadline[t].read > 0
    /\ deadline' = [t \in Tasks |->
                       IF pc[t] \in { "parse", "read" }
                       THEN [transact |-> saturating_sub(deadline[t].transact, TickMs),
                             read |-> saturating_sub(deadline[t].read, TickMs)]
                       ELSE deadline[t]]
    /\ UNCHANGED << model, conn_owner, operation_id, read_buffer, channel, wire,
                    closed, pc, call, ret, outbox, seen, sent, dev_sent >>
    /\ UNCHANGED codecVars
    /\ UNCHANGED managerVars
    /\ UNCHANGED pureVars
    /\ UNCHANGED lockVars

(***************************************************************************)
(* The calls of the two specifications.                                    *)
(***************************************************************************)
\* f32 bit patterns 1.0 and -2.0
F32_ONE == << \h3F, \h80, \h00, \h00 >>
F32_MINUS_TWO == << \hC0, \h00, \h00, \h00 >>

\* the arguments a caller gives to an operation, as a record of the
\* operation's parameters
NoArgs == [none |-> TRUE]

ArgsOf(op) ==
    CASE op \in TransactOps -> { NoArgs }
      [] op = "set_anc" -> [level : AncLevel]
      [] op = "set_eq_mode" -> [mode : { 0, 3 }]
      [] op = "set_custom_eq" ->
            { [eq |-> CustomEq(F32_ONE, F32_MINUS_TWO, F32_ZERO)] }
      [] op = "set_enhanced_bass" ->
            [enabled : BOOLEAN, level : { 2, 200 }]
      [] op \in { "set_personalized_anc", "set_in_ear_detection",
                  "set_latency" } -> [enabled : BOOLEAN]
      [] op = "launch_ear_fit_test" -> { NoArgs }
      [] op = "set_gesture" ->
            { [slot |-> GestureSlot(2, 1, 2, 8)] }
      [] op = "set_led_case_colors" ->
            [pixels : { << >>, << << 255, 0, 0 >> >> }]
      [] op = "ring_buds" ->
            [enable : BOOLEAN,
             side : { None, Some("Left"), Some("Right"), Some("Case") }]

\* every operation with every argument
AllCalls ==
    UNION { { [op |-> op, arg |-> a] : a \in ArgsOf(op) } : op \in Operations }

\* the calls of the concurrent callers: the first one identifies the device
\* or reads its battery, the second one uses a gated operation
RaceCalls(t) ==
    IF t = 1
    THEN { [op |-> "detect_serial", arg |-> NoArgs],
           [op |-> "read_battery", arg |-> NoArgs] }
    ELSE { [op |-> "get_personalized_anc", arg |-> NoArgs],
           [op |-> "set_anc", arg |-> [level |-> "Off"]] }

RaceBases == { "B155" }

\* concurrent callers on clones of one handle
Next ==
    \/ \E t \in Tasks : \E c \in RaceCalls(t) : Call(t, c)
    \/ \E t \in Tasks : Lock(t)
    \/ \E t \in Tasks : Send(t)
    \/ \E t \in Tasks : Flush(t)
    \/ \E t \in Tasks : ParseStep(t)
    \/ \E t \in Tasks : ReadBytes(t)
    \/ \E t \in Tasks : ReadEof(t)
    \/ \E t \in Tasks : ReadTimeout(t)
    \/ \E t \in Tasks : Resolve(t)
    \/ \E b \in RaceBases : set_model_base(b)
    \/ DeviceReply
    \/ DeviceNotify
    \/ DeviceClose
    \/ Tick

Spec == Init /\ [][Next]_vars

\* the model is set while no operation is under way
SetModelBaseIdle(b) ==
    /\ \A t \in Tasks : pc[t] = "idle"
    /\ set_model_base(b)

\* one caller, every operation on every base; the model does not change
\* during an operation, the device answers and stays connected, and no
\* deadline passes
NextGating ==
    \/ \E c \in AllCalls : Call(1, c)
    \/ Lock(1)
    \/ Send(1)
    \/ Flush(1)
    \/ ParseStep(1)
    \/ ReadBytes(1)
    \/ Resolve(1)
    \/ \E b \in ModelBase : SetModelBaseIdle(b)
    \/ DeviceReply

SpecGating == Init /\ [][NextGating]_vars

(***************************************************************************)
(* Claims about concurrent operations, checked under Spec.                 *)
(***************************************************************************)
\* the task is between taking the connection mutex and returning from its
\* send_command or transact
InTransaction(t) == pc[t] \in { "send", "flush", "parse", "read" }

Frames(fs) == [i \in 1..Len(fs) |-> fs[i].frame]

\* the bytes of the last frame that are still to be written
PendingBytes == IF conn_owner = 0 THEN << >> ELSE outbox[conn_owner]

\* C6: at most one operation at a time is between writing its request and
\* returning, and it is the one holding the connection mutex; the bytes on
\* the wire are the frames of the operations one after the other, never
\* interleaved; and a packet that read_packet returns goes to the matcher of
\* the operation holding the mutex while no other operation is in its
\* transaction.
C6_Serialized ==
    /\ [](\A t, u \in Tasks : (InTransaction(t) /\ InTransaction(u)) => t = u)
    /\ [](\A t \in Tasks : InTransaction(t) => conn_owner = t)
    /\ [](wire \o PendingBytes = Concat(Frames(sent)))
    /\ [][\A t \in Tasks :
            seen'[t] # seen[t]
               => /\ conn_owner = t
                  /\ \A u \in Tasks \ { t } :
                        ~InTransaction(u) /\ seen'[u] = seen[u]]_vars

\* one task has read a packet in its transaction while the other waits for
\* the connection mutex
C6_Witness ==
    \E t, u \in Tasks :
        /\ pc[t] = "parse" /\ seen[t] # << >>
        /\ pc[u] = "lock"

\* transact has returned Ok (detect_serial goes on with the payload)
TransactOk(t) ==
    \/ pc[t] = "resolve"
    \/ pc[t] = "done" /\ ret[t].tag = "Ok" /\ call[t].op \in TransactOps
    \/ pc[t] = "done" /\ ret[t].tag = "Panic"

\* what transact returned to the operation
TransactValue(t) ==
    IF call[t].op = "detect_serial" THEN call[t].payload ELSE ret[t].value

\* the packet with the operation id of the task's request in place of its own
WithRequestId(t, packet) ==
    [packet EXCEPT !.operation_id = call[t].operation]

Packets(fs) == [i \in 1..Len(fs) |-> fs[i].packet]

ParsedCount == Len(seen[1]) + Len(seen[2])

\* C7: a transaction returns Ok exactly on the first packet, in parse order,
\* that its matcher accepts, with the matcher's value on that packet; whether
\* a packet is accepted does not depend on its operation id; every packet
\* parsed before was rejected and is gone: the bytes still to be parsed are
\* the frames the device sent behind the parsed ones.
C7_FirstAccepted ==
    /\ \A t \in Tasks :
         /\ \A i \in 1..Len(seen[t]) :
              (matcher(call[t].op, WithRequestId(t, seen[t][i])) # None)
                 <=> (i = Len(seen[t]) /\ TransactOk(t))
         /\ TransactOk(t)
               => /\ seen[t] # << >>
                  /\ Some(TransactValue(t))
                        = matcher(call[t].op, seen[t][Len(seen[t])])
    /\ SubSeq(Packets(dev_sent), 1, ParsedCount)
          \in { seen[1] \o seen[2], seen[2] \o seen[1] }
    /\ read_buffer \o channel
          = Concat(SubSeq(Frames(dev_sent), ParsedCount + 1, Len(dev_sent)))

\* a transaction dropped a packet and then returned Ok on one whose operation
\* id is not the one of its request
C7_Witness ==
    \E t \in Tasks :
        /\ TransactOk(t)
        /\ Len(seen[t]) >= 2
        /\ seen[t][Len(seen[t])].operation_id # call[t].operation

\* the place in sent of the request of the task's operation, 0 before it is
\* written: under Spec a task makes one call
RequestIndex(t) ==
    IF \E i \in 1..Len(sent) : sent[i].task = t
    THEN CHOOSE i \in 1..Len(sent) : sent[i].task = t
    ELSE 0

\* the place in dev_sent of the last packet the task's transaction parsed:
\* the connection mutex is held from the request to the return, so the
\* packets of the task whose request was written first were parsed first
LastParsedIndex(t) ==
    LET u == CHOOSE v \in Tasks : v # t
    IN  IF RequestIndex(u) \in 1..(RequestIndex(t) - 1)
        THEN Len(seen[u]) + Len(seen[t])
        ELSE Len(seen[t])

\* C32: every packet that a transaction accepts as its result was sent by
\* the device after the request frame of that transaction was written:
\* nothing the device sent before, left in the channel or the accumulator, is
\* returned as the result of a later transaction.
C32_FreshReply ==
    \A t \in Tasks :
        (TransactOk(t) /\ seen[t] # << >>)
           => dev_sent[LastParsedIndex(t)].after >= RequestIndex(t)

\* the bases on which the spec allows an operation
AllowedBases(op) ==
    CASE op \in { "read_led_case_colors", "set_led_case_colors" } -> { "B181" }
      [] op \in { "get_personalized_anc", "set_personalized_anc" } -> { "B155" }
      [] op \in { "read_enhanced_bass", "set_enhanced_bass" } ->
            { "B171", "B172", "B168", "B162" }
      [] op \in { "read_in_ear", "set_in_ear_detection" } ->
            ModelBase \ { "B174" }
      [] op \in { "get_custom_eq", "set_custom_eq" } -> ModelBase \ { "B181" }
      [] op \in { "read_anc", "set_anc" } -> ModelBase \ { "B157" }
      [] OTHER -> ModelBase

\* the operations the spec gates
SpecGatedOps ==
    { "read_anc", "set_anc", "get_custom_eq", "set_custom_eq",
      "read_enhanced_bass", "set_enhanced_bass", "get_personalized_anc",
      "set_personalized_anc", "read_in_ear", "set_in_ear_detection",
      "read_led_case_colors", "set_led_case_colors" }

IsUnsupported(r) == r.tag = "Err" /\ r.error = "Unsupported"

\* the task obtains the connection mutex in this step
TakesLock(t) == pc[t] = "lock" /\ pc'[t] = "send"

\* C9: a gated operation evaluates its capability check when it holds the
\* connection mutex, against the base of that moment: an operation that
\* takes the mutex and goes on to send is allowed on the base in force when
\* it takes it, and no operation is rejected as Unsupported while another
\* task holds the mutex (it would still be waiting for it).
C9_GateUnderLock ==
    [][\A t \in Tasks :
         call'[t].op \in SpecGatedOps
            => /\ TakesLock(t)
                    => model_base(model) \in AllowedBases(call'[t].op)
               /\ (IsUnsupported(ret'[t]) /\ ~IsUnsupported(ret[t]))
                    => conn_owner \in { 0, t }]_vars

(***************************************************************************)
(* Claims about capability gating, checked under SpecGating.               *)
(***************************************************************************)
\* the caller of SpecGating makes its call in this step
Calls == pc[1] = "idle" /\ pc'[1] # "idle"

\* C8: a gated operation called on a base outside its allowed set returns
\* Unsupported with its label (set_anc: "ANC write") at once; nothing is
\* written, nothing is read, the operation-id counter and the read
\* accumulator stay as they are, and the connection mutex is not taken.
C8_UnsupportedTouchesNothing ==
    [][(/\ Calls
        /\ call'[1].op \in SpecGatedOps
        /\ model_base(model) \notin AllowedBases(call'[1].op))
          => /\ pc'[1] = "done"
             /\ ret'[1] = Unsupported(SupportLabel[call'[1].op])
             /\ call'[1].op = "set_anc" => ret'[1].label = "ANC write"
             /\ UNCHANGED << wire, outbox, sent, operation_id, read_buffer,
                             channel, seen, conn_owner, model >>]_vars

\* set_anc(Off) on B157 has returned Unsupported("ANC write") with nothing
\* on the wire
C8_Witness ==
    /\ model_base(model) = "B157"
    /\ call[1].op = "set_anc" /\ call[1].arg.level = "Off"
    /\ pc[1] = "done"
    /\ ret[1] = Unsupported("ANC write")
    /\ wire = << >> /\ sent = << >> /\ operation_id = 1

\* C10: on every base, Unknown included, the capability check of a gated
\* operation passes if and only if the base is in the allowed set of the
\* spec's table, and no other operation is ever rejected by gating.
C10_GatingTable ==
    call[1].op # "none"
       => (IsUnsupported(ret[1])
             <=> /\ call[1].op \in SpecGatedOps
                 /\ model_base(model) \notin AllowedBases(call[1].op))

\* a gated operation has passed its check on the only base that allows it and
\* on a fresh session, and has completed
C10_Witness ==
    /\ pc[1] = "done" /\ ret[1].tag = "Ok"
    /\ \/ call[1].op = "read_led_case_colors" /\ model_base(model) = "B181"
       \/ call[1].op = "read_anc" /\ model = None

\* the payload of a frame
FramePayload(frame) == SubSeq(frame, HEADER_LEN + 1, Len(frame) - CRC_LEN)

\* the payload of ring_buds by the table: the flag alone on B181, otherwise
\* the side, 0x02 for Left and 0x03 for every other, and the flag
RingPayload(base, enable, side) ==
    LET flag == IF enable THEN \h01 ELSE \h00
    IN  IF base = "B181" THEN << flag >>
        ELSE IF side = Some("Left") THEN << \h02, flag >>
        ELSE << \h03, flag >>

\* C30: on every base, with every flag and side, ring_buds is not rejected by
\* gating and writes one frame of command 0xF002 whose payload is the flag
\* alone on B181 and side and flag otherwise, the side being 0x02 for Left and
\* 0x03 for Right, Case or none.
C30_RingPayload ==
    call[1].op = "ring_buds"
       => /\ ~IsUnsupported(ret[1])
          /\ pc[1] \in { "lock", "send" } => sent = << >>
          /\ pc[1] \in { "flush", "done" }
                => /\ Len(sent) = 1
                   /\ FrameCommand(sent[1].frame) = \hF002
                   /\ FramePayload(sent[1].frame)
                         = RingPayload(model_base(model), call[1].arg.enable,
                                       call[1].arg.side)
          /\ pc[1] = "done" => (ret[1] = Ok("unit") /\ wire = sent[1].frame)

\* ring(true, Left) has sent 02 01 on a B157 session
C30_Witness ==
    /\ pc[1] = "done" /\ call[1].op = "ring_buds"
    /\ call[1].arg = [enable |-> TRUE, side |-> Some("Left")]
    /\ model_base(model) = "B157"
    /\ FramePayload(sent[1].frame) = << \h02, \h01 >>

(***************************************************************************)
(* The manager: connect, session and disconnect under concurrent callers,  *)
(* and the lifetime of the sessions behind the handles.                    *)
(***************************************************************************)
\* Arc::clone of the Arc<EarSession> of session s
arc_clone(ss, s) == [ss EXCEPT ![s].strong = @ + 1]

\* a bug: the stream is closed as soon as any reference goes
arc_drop_close(ss, s) == [ss EXCEPT ![s].strong = @ - 1, ![s].open = FALSE]

\* drop of one Arc<EarSession> of session s: the last one drops the
\* EarSession, its EarConnection and the two halves of the stream, which
\* closes it
arc_drop(ss, s) ==
    [ss EXCEPT ![s].strong = @ - 1, ![s].open = @ /\ ss[s].strong > 1]

\* a bug: the write lock of the slot is handed out while it is held
try_write_held(guard) == TRUE

\* RwLock::write (and RwLock::read) completes when no writer holds the lock
try_write(guard) == guard = 0

\* the result of a manager call or of an operation on a handle
ManagerResult(op, tag, s) == [op |-> op, tag |-> tag, session |-> s]

\* a bug: a handle is made of whatever the slot holds
ok_or_some(slot, op, err) == ManagerResult(op, "Ok", slot)

\* Option::ok_or on the slot
ok_or(slot, op, err) ==
    IF slot = 0 THEN ManagerResult(op, err, 0) ELSE ManagerResult(op, "Ok", slot)

\* EarManager::connect up to EarConnection::open: the write lock is taken and
\* an occupied slot ends the call
connect(t) ==
    /\ mpc[t] = "idle"
    /\ handle[t] = 0
    /\ try_write(write_guard)
    /\ IF manager_session # 0
       THEN /\ mret' = [mret EXCEPT ![t] =
                          ManagerResult("connect", "AlreadyConnected", 0)]
            /\ UNCHANGED << write_guard, mpc >>
       ELSE /\ write_guard' = t
            /\ mpc' = [mpc EXCEPT ![t] = "open"]
            /\ UNCHANGED mret
    /\ UNCHANGED << manager_session, sessions, handle >>
    /\ UNCHANGED codecVars
    /\ UNCHANGED sessionVars
    /\ UNCHANGED pureVars
    /\ UNCHANGED lockVars

\* a bug: the error of EarConnection::open leaves the write lock taken
connect_open_guard_kept(t) ==
    /\ mpc[t] = "open"
    /\ \/ /\ Len(sessions) < MaxSessions
          /\ LET s       == Len(sessions) + 1
                 created == Append(sessions, [strong |-> 2, open |-> TRUE])
             IN  /\ sessions' = IF manager_session = 0 THEN created
                                ELSE arc_drop(created, manager_session)
                 /\ manager_session' = s
                 /\ handle' = [handle EXCEPT ![t] = s]
                 /\ mret' = [mret EXCEPT ![t] = ManagerResult("connect", "Ok", s)]
                 /\ write_guard' = 0
       \/ /\ mret' = [mret EXCEPT ![t] = ManagerResult("connect", "Io", 0)]
          /\ UNCHANGED << manager_session, sessions, handle, write_guard >>
    /\ mpc' = [mpc EXCEPT ![t] = "idle"]
    /\ UNCHANGED codecVars
    /\ UNCHANGED sessionVars
    /\ UNCHANGED pureVars
    /\ UNCHANGED lockVars

\* EarConnection::open returns: on an error connect returns it; otherwise the
\* session is created, one Arc goes to the handle and one into the slot, and
\* whatever the slot held is dropped
connect_open(t) ==
    /\ mpc[t] = "open"
    /\ \/ /\ Len(sessions) < MaxSessions
          /\ LET s       == Len(sessions) + 1
                 created == Append(sessions, [strong |-> 2, open |-> TRUE])
             IN  /\ sessions' = IF manager_session = 0 THEN created
                                ELSE arc_drop(created, manager_session)
                 /\ manager_session' = s
                 /\ handle' = [handle EXCEPT ![t] = s]
                 /\ mret' = [mret EXCEPT ![t] = ManagerResult("connect", "Ok", s)]
       \/ /\ mret' = [mret EXCEPT ![t] = ManagerResult("connect", "Io", 0)]
          /\ UNCHANGED << manager_session, sessions, handle >>
    /\ write_guard' = 0
    /\ mpc' = [mpc EXCEPT ![t] = "idle"]
    /\ UNCHANGED codecVars
    /\ UNCHANGED sessionVars
    /\ UNCHANGED pureVars
    /\ UNCHANGED lockVars

\* EarManager::session
session(t) ==
    /\ mpc[t] = "idle"
    /\ handle[t] = 0
    /\ try_write(write_guard)
    /\ LET r == ok_or(manager_session, "session", "NoSession")
       IN  /\ mret' = [mret EXCEPT ![t] = r]
           /\ handle' = [handle EXCEPT ![t] = r.session]
           /\ sessions' = IF r.session = 0 THEN sessions
                          ELSE arc_clone(sessions, r.session)
    /\ UNCHANGED << manager_session, write_guard, mpc >>
    /\ UNCHANGED codecVars
    /\ UNCHANGED sessionVars
    /\ UNCHANGED pureVars
    /\ UNCHANGED lockVars

\* EarManager::disconnect
disconnect(t) ==
    /\ mpc[t] = "idle"
    /\ try_write(write_guard)
    /\ IF manager_session = 0
       THEN /\ mret' = [mret EXCEPT ![t] =
                          ManagerResult("disconnect", "NoSession", 0)]
            /\ UNCHANGED << manager_session, sessions >>
       ELSE /\ manager_session' = 0
            /\ sessions' = arc_drop(sessions, manager_session)
            /\ mret' = [mret EXCEPT ![t] = ManagerResult("disconnect", "Ok", 0)]
    /\ UNCHANGED << write_guard, handle, mpc >>
    /\ UNCHANGED codecVars
    /\ UNCHANGED sessionVars
    /\ UNCHANGED pureVars
    /\ UNCHANGED lockVars

\* a task starts an operation on the handle it holds
handle_call(t) ==
    /\ mpc[t] = "idle"
    /\ handle[t] # 0
    /\ mpc' = [mpc EXCEPT ![t] = "op"]
    /\ UNCHANGED << manager_session, write_guard, sessions, handle, mret >>
    /\ UNCHANGED codecVars
    /\ UNCHANGED sessionVars
    /\ UNCHANGED pureVars
    /\ UNCHANGED lockVars

\* the operation returns: its write and its read fail on a closed stream
handle_return(t) ==
    /\ mpc[t] = "op"
    /\ mpc' = [mpc EXCEPT ![t] = "idle"]
    /\ mret' = [mret EXCEPT ![t] =
                  ManagerResult("operation",
                                IF sessions[handle[t]].open THEN "Ok" ELSE "Io",
                                handle[t])]
    /\ UNCHANGED << manager_session, write_guard, sessions, handle >>
    /\ UNCHANGED codecVars
    /\ UNCHANGED sessionVars
    /\ UNCHANGED pureVars
    /\ UNCHANGED lockVars

\* a task drops its EarSessionHandle
handle_drop(t) ==
    /\ mpc[t] = "idle"
    /\ handle[t] # 0
    /\ handle' = [handle EXCEPT ![t] = 0]
    /\ sessions' = arc_drop(sessions, handle[t])
    /\ UNCHANGED << manager_session, write_guard, mpc, mret >>
    /\ UNCHANGED codecVars
    /\ UNCHANGED sessionVars
    /\ UNCHANGED pureVars
    /\ UNCHANGED lockVars

\* concurrent callers of one manager
NextManager ==
    \/ \E t \in Tasks : connect(t)
    \/ \E t \in Tasks : connect_open(t)
    \/ \E t \in Tasks : session(t)
    \/ \E t \in Tasks : disconnect(t)
    \/ \E t \in Tasks : handle_call(t)
    \/ \E t \in Tasks : handle_return(t)
    \/ \E t \in Tasks : handle_drop(t)

SpecManager == Init /\ [][NextManager]_vars

(***************************************************************************)
(* Claims about the manager, checked under SpecManager.                    *)
(***************************************************************************)
\* the tasks between the check of the slot and the installation of a session
Opening == { t \in Tasks : mpc[t] = "open" }

\* C11: the slot holds at most one session and connect never replaces an
\* installed one: at most one connect at a time is between its check of the
\* slot and its installation; a session is created only while the slot is
\* empty; the slot changes from a session only to empty; a connect that finds
\* the slot occupied returns AlreadyConnected, opens nothing and leaves the
\* slot as it is; so of two connects on an empty manager one gets the handle
\* and the other AlreadyConnected.
C11_SingleSlot ==
    /\ [](Cardinality(Opening) <= 1)
    /\ [][/\ Len(sessions') > Len(sessions) => manager_session = 0
          /\ (manager_session # 0 /\ manager_session' # manager_session)
                => manager_session' = 0
          /\ \A t \in Tasks :
               (manager_session # 0 /\ mret'[t] # mret[t]
                   /\ mret'[t].op = "connect")
                  => /\ mret'[t].tag = "AlreadyConnected"
                     /\ UNCHANGED << manager_session, sessions, handle >>
         ]_vars

\* of two connects on an empty manager one returned the handle and the other
\* AlreadyConnected
C11_Witness ==
    \E t, u \in Tasks :
        /\ mret[t] = ManagerResult("connect", "Ok", 1)
        /\ mret[u] = ManagerResult("connect", "AlreadyConnected", 0)
        /\ manager_session = 1
        /\ Len(sessions) = 1

\* C12: the slot is empty or holds the session of the most recent successful
\* connect; session() returns a handle to it iff the slot is occupied and
\* NoSession otherwise, and leaves the slot alone; disconnect() empties an
\* occupied slot with Ok and returns NoSession on an empty one, which stays
\* empty; a connect that finds the slot empty goes on to open the channel and
\* returns Ok or the error of the open, never AlreadyConnected.
C12_Lifecycle ==
    /\ [](manager_session \in { 0, Len(sessions) })
    /\ [][/\ \A t \in Tasks :
            /\ session(t)
                 => /\ mret'[t].tag = IF manager_session # 0 THEN "Ok"
                                      ELSE "NoSession"
                    /\ handle'[t] = manager_session
                    /\ manager_session' = manager_session
            /\ disconnect(t)
                 => /\ mret'[t].tag = IF manager_session # 0 THEN "Ok"
                                      ELSE "NoSession"
                    /\ manager_session' = 0
            /\ (connect(t) /\ manager_session = 0)
                 => mpc'[t] = "open" /\ mret'[t] = mret[t]
            /\ connect_open(t) => mret'[t].tag \in { "Ok", "Io" }
          /\ (manager_session = 0 /\ manager_session' # 0)
               => \E t \in Tasks : connect_open(t) /\ mret'[t].tag = "Ok"
         ]_vars

\* after a disconnect a later connect has succeeded and session() has returned
\* a handle to the new session
C12_Witness ==
    \E t, u \in Tasks :
        /\ mret[t] = ManagerResult("session", "Ok", 2)
        /\ mret[u] = ManagerResult("connect", "Ok", 2)
        /\ manager_session = 2

\* the sessions whose stream is open
Alive == { s \in 1..Len(sessions) : sessions[s].open }

\* C13: at most one session of the manager is alive with an open connection,
\* sessions behind handles obtained before a disconnect included.
C13_OneSessionAlive == Cardinality(Alive) <= 1

\* the handles on session s
Holders(s) == { t \in Tasks : handle[t] = s }

\* C14: the stream of a session is open exactly while the slot or some handle
\* references the session, the strong count being the number of these
\* references; a disconnect leaves every operation in flight in flight and its
\* stream open; an operation on a handle returns Ok.
C14_GracefulDrain ==
    /\ [](\A s \in 1..Len(sessions) :
            /\ sessions[s].open <=> (manager_session = s \/ Holders(s) # {})
            /\ sessions[s].strong = Cardinality(Holders(s))
                                      + (IF manager_session = s THEN 1 ELSE 0))
    /\ [][\A t \in Tasks :
            /\ (mpc[t] = "op" /\ \E u \in Tasks : disconnect(u))
                 => mpc'[t] = "op" /\ sessions'[handle[t]].open
            /\ handle_return(t) => mret'[t].tag = "Ok"
         ]_vars

\* an operation has returned Ok on a session that the slot no longer holds,
\* after a disconnect returned Ok
C14_Witness ==
    \E t, u \in Tasks :
        /\ mret[t].tag = "Ok" /\ mret[t].op = "operation"
        /\ manager_session # mret[t].session
        /\ mret[u] = ManagerResult("disconnect", "Ok", 0)

(***************************************************************************)
(* One caller sending commands one after the other on a fresh connection.  *)
(***************************************************************************)
\* the caller, whose last operation did not end in an I/O error, is ready for
\* its next call
Again(t) ==
    /\ pc[t] = "done"
    /\ ret[t] # Io("Other")
    /\ pc' = [pc EXCEPT ![t] = "idle"]
    /\ seen' = [seen EXCEPT ![t] = << >>]
    /\ UNCHANGED << model, conn_owner, operation_id, read_buffer, channel, wire,
                    closed, call, ret, deadline, outbox, sent, dev_sent >>
    /\ UNCHANGED codecVars
    /\ UNCHANGED managerVars
    /\ UNCHANGED pureVars
    /\ UNCHANGED lockVars

\* the command sent over and over
CounterCalls == { [op |-> "launch_ear_fit_test", arg |-> NoArgs] }

\* the next call, while the behaviour has sends left
CallCounter(c) ==
    /\ Len(sent) < MaxSends
    /\ Call(1, c)

NextCounter ==
    \/ \E c \in CounterCalls : CallCounter(c)
    \/ Lock(1)
    \/ Send(1)
    \/ Flush(1)
    \/ Again(1)
    \/ DeviceClose

SpecCounter == Init /\ [][NextCounter]_vars

(***************************************************************************)
(* Claims about the operation-id counter, checked under SpecCounter.       *)
(***************************************************************************)
\* the operation ids of the frames written, in order
SentIds == [i \in 1..Len(sent) |-> FrameOperation(sent[i].frame)]

\* C15: on a fresh connection the k-th send_command puts operation id
\* ((k-1) mod 250) + 1 into its frame: 1, 2, ..., 250, 1, ...
C15_Sequence ==
    \A k \in 1..Len(sent) : SentIds[k] = ((k - 1) % 250) + 1

\* the id after id in the cycle 1..250
Successor(id) == IF id = 250 THEN 1 ELSE id + 1

\* C16: the counter is always in 1..250 and so is every id on the wire; the
\* counter changes only in send_command, which moves it to the successor of
\* its value (1 after 250) whether or not the write succeeds, and the frame
\* written carries the new value.
C16_CounterRange ==
    /\ [](operation_id \in 1..250)
    /\ [](\A k \in 1..Len(sent) : SentIds[k] \in 1..250)
    /\ [][/\ operation_id' # operation_id => \E t \in Tasks : pc[t] = "send"
          /\ \A t \in Tasks :
               (pc[t] = "send" /\ pc'[t] # "send")
                  => /\ operation_id' = Successor(operation_id)
                     /\ call'[t].operation = operation_id'
                     /\ Len(sent') > Len(sent)
                           => SentIds'[Len(sent')] = operation_id'
         ]_vars

\* the counter has passed 250 and started again, and a send on a closed
\* stream has consumed an id
C16_Witness ==
    /\ \E k \in 1..(Len(sent) - 1) : SentIds[k] = 250 /\ SentIds[k + 1] = 1
    /\ pc[1] = "done" /\ ret[1] = Io("Other")
    /\ call[1].operation = Successor(SentIds[Len(sent)])

(***************************************************************************)
(* Claims about deadlines, checked under Spec.                             *)
(***************************************************************************)
\* the operation of the task ended with a Timeout error
TimedOut(t) ==
    /\ pc[t] = "done"
    /\ ret[t].tag = "Err"
    /\ ret[t].error = "Timeout"

\* C17: a request/response operation that ends because no accepted reply came
\* in time returns Timeout with its own label, whether the device sent
\* nothing, part of a frame or only packets the matcher rejects.
C17_TimeoutLabel ==
    \A t \in Tasks :
        TimedOut(t) => ret[t].label = TimeoutLabel[call[t].op]

\* C18: a transaction has one deadline, timeout after its request was
\* written: once that instant is reached it does not go on waiting for bytes
\* of the channel.
C18_OneDeadline ==
    \A t \in Tasks :
        (pc[t] = "read" /\ deadline[t].transact = 0) => deadline[t].read = 0

(***************************************************************************)
(* One caller and a link that damages frames.                              *)
(***************************************************************************)
\* the reply of the device to a request it has received in full arrives with
\* a wrong CRC
DeviceCorrupt ==
    /\ ~closed
    /\ Len(dev_sent) < MaxDeviceFrames
    /\ \E i \in 1..Len(sent) :
         /\ FullyWritten(i)
         /\ \E reply \in DeviceReplies(FrameCommand(sent[i].frame)) :
            \E delta \in CrcDeltas :
              LET packet == EarPacket(reply.command,
                                      FrameOperation(sent[i].frame),
                                      reply.payload)
                  frame  == Corrupted(packet, delta)
              IN  /\ channel' = channel \o frame
                  /\ dev_sent' = Append(dev_sent,
                                        [packet |-> packet, frame |-> frame,
                                         after |-> Len(sent)])
    /\ UNCHANGED << model, conn_owner, operation_id, read_buffer, wire,
                    closed, pc, call, ret, deadline, outbox, seen, sent >>
    /\ UNCHANGED codecVars
    /\ UNCHANGED managerVars
    /\ UNCHANGED pureVars
    /\ UNCHANGED lockVars

\* the caller reads the battery or the ANC level
CorruptCalls ==
    { [op |-> "read_battery", arg |-> NoArgs],
      [op |-> "read_anc", arg |-> NoArgs] }

\* one caller, one operation after the other; the device answers, and an
\* answer may arrive damaged; no deadline passes
NextCorrupt ==
    \/ \E c \in CorruptCalls : Call(1, c)
    \/ Lock(1)
    \/ Send(1)
    \/ Flush(1)
    \/ ParseStep(1)
    \/ ReadBytes(1)
    \/ Again(1)
    \/ DeviceReply
    \/ DeviceCorrupt

SpecCorrupt == Init /\ [][NextCorrupt]_vars

(***************************************************************************)
(* Claims about damaged frames, checked under SpecCorrupt.                 *)
(***************************************************************************)
\* the bytes of the device that no try_parse has consumed
Unparsed == read_buffer \o channel

\* the first frame of the device that is still unparsed, Len(dev_sent) + 1
\* if there is none
NextFrame ==
    LET consumed == Len(Concat(Frames(dev_sent))) - Len(Unparsed)
    IN  CHOOSE i \in 1..(Len(dev_sent) + 1) :
            Len(Concat(SubSeq(Frames(dev_sent), 1, i - 1))) = consumed

\* the frame is not the encoding of its packet
IsCorrupt(e) ==
    e.frame # encode(e.packet.command, e.packet.operation_id, e.packet.payload)

\* the transaction of the task is about to parse a complete damaged frame
CorruptAhead(t) ==
    /\ pc[t] = "parse"
    /\ NextFrame <= Len(dev_sent)
    /\ IsCorrupt(dev_sent[NextFrame])
    /\ Len(read_buffer) >= Len(dev_sent[NextFrame].frame)

\* C19: when a transaction parses a complete frame with a wrong CRC it
\* returns CrcMismatch in that step: the matcher sees nothing, nothing is
\* written, the counter stays, no byte is read from the channel, and only the
\* damaged frame leaves the accumulator, so a valid reply behind it stays for
\* a later transaction.
C19_CrcFatal ==
    [][\A t \in Tasks :
         (CorruptAhead(t) /\ (pc'[t] # pc[t] \/ read_buffer' # read_buffer))
            => /\ pc'[t] = "done"
               /\ ret'[t] = CrcMismatch
               /\ conn_owner' = 0
               /\ UNCHANGED << seen, sent, wire, operation_id, channel >>
               /\ read_buffer' = SubSeq(read_buffer,
                                        Len(dev_sent[NextFrame].frame) + 1,
                                        Len(read_buffer))
      ]_vars

\* a transaction has returned CrcMismatch and the valid reply that followed
\* the damaged frame is in the accumulator
C19_Witness ==
    /\ pc[1] = "done"
    /\ ret[1] = CrcMismatch
    /\ seen[1] = << >>
    /\ try_parse(read_buffer).tag = "Some"
    /\ matcher(call[1].op, try_parse(read_buffer).packet) # None

(***************************************************************************)
(* Two callers of one session whose model only detect_serial sets.         *)
(***************************************************************************)
NextDetect ==
    \/ \E t \in Tasks : \E c \in RaceCalls(t) : Call(t, c)
    \/ \E t \in Tasks : Lock(t)
    \/ \E t \in Tasks : Send(t)
    \/ \E t \in Tasks : Flush(t)
    \/ \E t \in Tasks : ParseStep(t)
    \/ \E t \in Tasks : ReadBytes(t)
    \/ \E t \in Tasks : Resolve(t)
    \/ DeviceReply

SpecDetect == Init /\ [][NextDetect]_vars

(***************************************************************************)
(* Claims about detection, checked under SpecDetect.                       *)
(***************************************************************************)
\* the texts "SH0128AA" and "28"
Ear2Serial == << 83, 72, 48, 49, 50, 56, 65, 65 >>
Ear2Sku == << 50, 56 >>

\* the descriptor of the catalog model of SKU "28" with that serial
Ear2Descriptor ==
    ModelDescriptor("B155", Some("ear_2_black"), Some("Nothing Ear (2)"),
                    Some(Ear2Sku), Some(Ear2Serial))

\* the descriptor detect_serial is to install for a serial reply, None if the
\* reply has no serial line or its SKU is not in the table
Detected(payload) ==
    LET serial == parse_serial_number(payload)
        sku    == IF serial = None THEN None
                  ELSE derive_sku_from_serial(serial.value)
        info   == IF sku.tag = "Some" THEN model_from_sku(sku.value) ELSE None
    IN  IF info = None THEN None
        ELSE Some(ModelDescriptor(info.value.base, Some(info.value.id),
                                  Some(info.value.name), sku, serial))

\* C20: when detect_serial succeeds on a serial reply whose line gives a SKU
\* of the table, the descriptor becomes base, id and name of the SKU's model
\* with that SKU and serial: for the line "x,4,SH0128AA" it is ear_2_black,
\* B155, SKU "28"; and a gated operation called afterwards is gated against
\* the new base, so get_personalized_anc is let through.
C20_DetectGates ==
    [][\A t \in Tasks :
         /\ (pc[t] = "resolve" /\ pc'[t] = "done" /\ ret'[t].tag = "Ok"
                /\ Detected(call[t].payload) # None)
               => model' = Detected(call[t].payload)
         /\ (pc[t] = "resolve" /\ pc'[t] = "done"
                /\ call[t].payload = Ascii7(SerialLineEar2))
               => /\ model' = Some(Ear2Descriptor)
                  /\ ret'[t] = Ok([serial_number |-> Some(Ear2Serial),
                                   sku |-> Some(Ear2Sku),
                                   model_id |-> Some("ear_2_black")])
         /\ (pc[t] = "idle" /\ pc'[t] # "idle" /\ call'[t].op \in SpecGatedOps)
               => (IsUnsupported(ret'[t])
                      <=> model_base(model) \notin AllowedBases(call'[t].op))
         /\ (pc[t] = "idle" /\ pc'[t] # "idle" /\ model = Some(Ear2Descriptor)
                /\ call'[t].op = "get_personalized_anc")
               => pc'[t] = "lock"
      ]_vars

\* detect_serial has installed ear_2_black and a get_personalized_anc called
\* after it was let through and has returned Ok
C20_Witness ==
    /\ pc[1] = "done" /\ call[1].op = "detect_serial" /\ ret[1].tag = "Ok"
    /\ model = Some(Ear2Descriptor)
    /\ pc[2] = "done" /\ call[2].op = "get_personalized_anc"
    /\ call[2].base = "B155"
    /\ ret[2] = Ok(TRUE)

(***************************************************************************)
(* One caller detecting the model over and over; the device answers with   *)
(* any of a few serial replies or closes the stream, and the base may be   *)
(* set by hand in between.                                                 *)
(***************************************************************************)
\* the texts after the seven leading bytes of a serial reply: "x,4,SH0128AA"
\* (SKU 28, Ear (2)), "x,4,SH0014AA" (SKU 14, Ear (stick)), "x,4,SH0099AA"
\* (SKU 99, not in the table), "x,4,ZZ000000" (no SKU), "x,5,SH0128AA" (no
\* serial record) and "x,4,MA0000" (a short MA serial)
SerialLines ==
    { SerialLineEar2,
      << 120, 44, 52, 44, 83, 72, 48, 48, 49, 52, 65, 65 >>,
      << 120, 44, 52, 44, 83, 72, 48, 48, 57, 57, 65, 65 >>,
      << 120, 44, 52, 44, 90, 90, 48, 48, 48, 48, 48, 48 >>,
      << 120, 44, 53, 44, 83, 72, 48, 49, 50, 56, 65, 65 >>,
      SerialLineShortMA }

\* the device answers the serial requests it has received in full in their
\* order, each once, with one of the serial replies
DeviceSerial ==
    /\ ~closed
    /\ Len(dev_sent) < MaxDeviceFrames
    /\ \E i \in { Len(dev_sent) + 1 } \cap (1..Len(sent)) :
         /\ FullyWritten(i)
         /\ FrameCommand(sent[i].frame) = protocol_command.REQUEST_SERIAL
         /\ \E line \in SerialLines :
              DeviceWrite(EarPacket(protocol_response.SERIAL,
                                    FrameOperation(sent[i].frame),
                                    Ascii7(line)))
    /\ UNCHANGED << model, conn_owner, operation_id, read_buffer, wire,
                    closed, pc, call, ret, deadline, outbox, seen, sent >>
    /\ UNCHANGED codecVars
    /\ UNCHANGED managerVars
    /\ UNCHANGED pureVars
    /\ UNCHANGED lockVars

\* the caller detects; the base set by hand is B181
NextSerial ==
    \/ Call(1, [op |-> "detect_serial", arg |-> NoArgs])
    \/ Lock(1)
    \/ Send(1)
    \/ Flush(1)
    \/ ParseStep(1)
    \/ ReadBytes(1)
    \/ ReadEof(1)
    \/ Resolve(1)
    \/ Again(1)
    \/ set_model_base("B181")
    \/ DeviceSerial
    \/ DeviceClose

SpecSerial == Init /\ [][NextSerial]_vars

(***************************************************************************)
(* Claims about detect_serial's result, checked under SpecSerial.          *)
(***************************************************************************)
\* the serial records of a reply: the third fields, trimmed, of the lines
\* beyond the seventh byte that have three fields, "4" as the second and a
\* third that is not blank
SerialRecords(payload) ==
    IF Len(payload) < 8 THEN { }
    ELSE LET ls == lines(from_utf8_lossy(Slice(payload, 7, Len(payload))))
         IN  { trim(split(ls[i], 44)[3]) :
                 i \in { j \in 1..Len(ls) :
                           /\ Len(split(ls[j], 44)) = 3
                           /\ trim(split(ls[j], 44)[2]) = << 52 >>
                           /\ trim(split(ls[j], 44)[3]) # << >> } }

\* the SKUs of the table
SkuTable == { SKU_TO_MODEL_PAIRS[i][1] : i \in 1..Len(SKU_TO_MODEL_PAIRS) }

\* a descriptor written in one piece: by set_model_base, or by detect_serial
\* with base, id and name of one model of the catalog, a SKU of that model
\* and a serial that gives the SKU
Whole(m) ==
    \/ m = None
    \/ /\ m # None
       /\ \/ m.value = ModelDescriptor(m.value.base, None, None, None, None)
          \/ /\ m.value.sku # None /\ m.value.serial # None
             /\ derive_sku_from_serial(m.value.serial.value) = m.value.sku
             /\ \E i \in 1..Len(SKU_TO_MODEL_PAIRS) :
                  /\ SKU_TO_MODEL_PAIRS[i][1] = m.value.sku.value
                  /\ \E k \in 1..Len(MODEL_LIST) :
                       /\ MODEL_LIST[k].id = SKU_TO_MODEL_PAIRS[i][2]
                       /\ m.value.model_id = Some(MODEL_LIST[k].id)
                       /\ m.value.name = Some(MODEL_LIST[k].name)
                       /\ m.value.base = MODEL_LIST[k].base

\* detect_serial ends in this step
DetectEnds(t) ==
    pc[t] # "done" /\ pc'[t] = "done" /\ call[t].op = "detect_serial"

\* C21: detect_serial reports the serial iff the reply has a serial record,
\* the SKU iff the derivation succeeds, also for a SKU that is not in the
\* table, and the model id iff the SKU is in the table; it writes the
\* descriptor iff it reports a model id, all five fields in one step, and
\* leaves the descriptor as it is when the transaction fails or no model is
\* resolved.
C21_DetectResult ==
    [][/\ \A t \in Tasks :
            /\ (DetectEnds(t) /\ ret'[t].tag = "Ok")
                  => LET r == ret'[t].value
                         p == call[t].payload
                     IN  /\ pc[t] = "resolve"
                         /\ r.serial_number # None <=> SerialRecords(p) # { }
                         /\ r.serial_number # None
                               => r.serial_number.value \in SerialRecords(p)
                         /\ r.sku # None
                               <=> /\ r.serial_number # None
                                   /\ derive_sku_from_serial(
                                         r.serial_number.value) # None
                         /\ r.sku # None
                               => r.sku = derive_sku_from_serial(
                                             r.serial_number.value)
                         /\ r.model_id # None
                               <=> (r.sku # None /\ r.sku.value \in SkuTable)
                         /\ IF r.model_id # None
                            THEN /\ model' # None
                                 /\ model'.value.model_id = r.model_id
                                 /\ model'.value.sku = r.sku
                                 /\ model'.value.serial = r.serial_number
                                 /\ Whole(model')
                            ELSE model' = model
            /\ (DetectEnds(t) /\ ret'[t].tag # "Ok") => model' = model
       /\ model' # model
             => \/ \E t \in Tasks :
                     DetectEnds(t) /\ ret'[t].tag = "Ok"
                                   /\ ret'[t].value.model_id # None
                \/ \E b \in ModelBase :
                     model' = Some(ModelDescriptor(b, None, None, None, None))
       /\ Whole(model')
      ]_vars

\* detect_serial has replaced a descriptor set by hand or detected before,
\* or has reported a SKU that is not in the table and left the descriptor set
\* by hand as it was
C21_Witness ==
    /\ pc[1] = "done" /\ call[1].op = "detect_serial" /\ ret[1].tag = "Ok"
    /\ ret[1].value.sku = Some(<< 57, 57 >>)
    /\ ret[1].value.model_id = None
    /\ model = Some(ModelDescriptor("B181", None, None, None, None))
    /\ Len(dev_sent) = 2
    /\ dev_sent[1].packet.payload = Ascii7(SerialLineEar2)

(***************************************************************************)
(* The pure functions on their own: an input is drawn, the function is     *)
(* applied to it once.                                                     *)
(***************************************************************************)
\* the battery payload of a state: the number of devices that are not
\* Disconnected, then for each of them, in the order given, its id (0x02
\* left, 0x03 right, 0x04 case) and its percentage with 0x80 added when it is
\* charging
PackBattery(status, order) ==
    LET reading(id) == CASE id = \h02 -> status.left
                         [] id = \h03 -> status.right
                         [] id = \h04 -> status.case
        entry(id) == IF reading(id) = Disconnected THEN << >>
                     ELSE << id, reading(id).percent
                                   + (IF reading(id).charging THEN \h80 ELSE 0) >>
        entries == entry(order[1]) \o entry(order[2]) \o entry(order[3])
    IN  << Len(entries) \div 2 >> \o entries

\* the bytes 55 60 01 34 12 02 00 01 AA BB
CrcVector == << \h55, \h60, \h01, \h34, \h12, \h02, \h00, \h01, \hAA, \hBB >>

\* the inputs of the functions:
\*   serials    a head ("MA", "SH", "13", "ZZ"), "00", two digits, two digits
\*              and a tail of "A"s, every prefix of such a serial, and the
\*              debug serial
\*   packets    commands, operation ids and payloads of up to MaxPayload
\*              bytes, and the longest payload, 255 bytes
\*   buffers    byte sequences of up to MaxPayload bytes and the known vector
\*   statuses   battery states: each device Disconnected or at 0, 1, 100 or
\*              127 percent, charging or not, packed in two orders
\*   skus       the SKUs of the table, the empty text, "99" and "00"
\*   gains      band gains as f32 bit patterns: 0.0, -0.0, 1.0, -2.0, 5.0,
\*              -6.0 and the subnormals 00000100 and 00000001
PureInputs ==
    LET heads   == { << 77, 65 >>, << 83, 72 >>, << 49, 51 >>, << 90, 90 >> }
        digits  == { 48, 50, 51, 52 }
        pairs   == { << a, b >> : a \in digits, b \in digits }
        whole   == { h \o << 48, 48 >> \o m \o y \o tail :
                       h \in heads, m \in pairs, y \in pairs,
                       tail \in SeqsUpTo({ 65 }, 0, MaxTail) }
        serials == UNION { { SubSeq(w, 1, n) : n \in 0..Len(w) } : w \in whole }
                      \cup { DEBUG_SERIAL }
        packets == { [command |-> c, operation_id |-> o, payload |-> p] :
                       c \in { \h0000, \h1234, \hC007, \hFFFF },
                       o \in { \h00, \h01, \h10, \hFF },
                       p \in SeqsUpTo({ \h00, \h55, \hAA, \hFF }, 0, MaxPayload)
                                \cup { [i \in 1..255 |-> i % 7] } }
        buffers == SeqsUpTo({ \h00, \h01, \h55, \h80, \hAA, \hFF }, 0,
                            MaxPayload) \cup { CrcVector }
        readings == { Disconnected }
                       \cup { Level(p, c) : p \in { 0, 1, 100, 127 },
                                            c \in BOOLEAN }
        statuses == [left : readings, right : readings, case : readings]
        orders   == { << \h02, \h03, \h04 >>, << \h04, \h02, \h03 >> }
        gains    == { << \h00, \h00, \h00, \h00 >>, << \h80, \h00, \h00, \h00 >>,
                      << \h3F, \h80, \h00, \h00 >>, << \hC0, \h00, \h00, \h00 >>,
                      << \h40, \hA0, \h00, \h00 >>, << \hC0, \hC0, \h00, \h00 >>,
                      << \h00, \h00, \h01, \h00 >>, << \h00, \h00, \h00, \h01 >> }
        skus     == { SKU_TO_MODEL_PAIRS[i][1] : i \in 1..Len(SKU_TO_MODEL_PAIRS) }
                       \cup { << >>, << 57, 57 >>, << 48, 48 >> }
    IN  { [fn |-> "derive_sku_from_serial", serial |-> x] : x \in serials }
           \cup { [fn |-> "model_from_sku", sku |-> x] : x \in skus }
           \cup { [fn |-> "to_device", level |-> x] : x \in AncLevel }
           \cup { [fn |-> "from_device", value |-> x] : x \in 0..255 }
           \cup { [fn |-> "encode_custom_eq", eq |-> CustomEq(b, m, t)] :
                     b \in gains, m \in gains, t \in gains }
           \cup { [fn |-> "parse_battery_payload", status |-> x,
                   payload |-> PackBattery(x, o)] :
                     x \in statuses, o \in orders }
           \cup { [fn |-> "encode", packet |-> x] : x \in packets }
           \cup { [fn |-> "crc16", buffer |-> x] : x \in buffers }

InitPure ==
    /\ input \in PureInputs
    /\ output = Pending
    /\ IdleLocks
    /\ InitSession
    /\ IdleCodec
    /\ InitManager

\* derive_sku_from_serial(&serial)
ApplyDeriveSku ==
    /\ input.fn = "derive_sku_from_serial"
    /\ output = Pending
    /\ output' = Returned(derive_sku_from_serial(input.serial))
    /\ UNCHANGED << input, codecVars, sessionVars, managerVars, lockVars >>

\* EarPacket::encode(command, operation_id, &payload)
ApplyEncode ==
    /\ input.fn = "encode"
    /\ output = Pending
    /\ output' = Returned(encode(input.packet.command,
                                 input.packet.operation_id,
                                 input.packet.payload))
    /\ UNCHANGED << input, codecVars, sessionVars, managerVars, lockVars >>

\* crc16(&buffer)
ApplyCrc16 ==
    /\ input.fn = "crc16"
    /\ output = Pending
    /\ output' = Returned(crc16(input.buffer))
    /\ UNCHANGED << input, codecVars, sessionVars, managerVars, lockVars >>

\* parse_battery_payload(&payload)
ApplyParseBattery ==
    /\ input.fn = "parse_battery_payload"
    /\ output = Pending
    /\ output' = Returned(parse_battery_payload(input.payload))
    /\ UNCHANGED << input, codecVars, sessionVars, managerVars, lockVars >>

\* encode_custom_eq(eq), and decode_custom_eq of what it returned
ApplyCustomEq ==
    /\ input.fn = "encode_custom_eq"
    /\ output = Pending
    /\ output' = Returned([encoded |-> encode_custom_eq(input.eq),
                           decoded |-> decode_custom_eq(
                                          encode_custom_eq(input.eq))])
    /\ UNCHANGED << input, codecVars, sessionVars, managerVars, lockVars >>

\* level.to_device(), and AncLevel::from_device of what it returned
ApplyToDevice ==
    /\ input.fn = "to_device"
    /\ output = Pending
    /\ output' = Returned([code |-> to_device(input.level),
                           level |-> from_device(to_device(input.level))])
    /\ UNCHANGED << input, codecVars, sessionVars, managerVars, lockVars >>

\* AncLevel::from_device(value)
ApplyFromDevice ==
    /\ input.fn = "from_device"
    /\ output = Pending
    /\ output' = Returned(from_device(input.value))
    /\ UNCHANGED << input, codecVars, sessionVars, managerVars, lockVars >>

\* model_from_sku(&sku)
ApplyModelFromSku ==
    /\ input.fn = "model_from_sku"
    /\ output = Pending
    /\ output' = Returned(model_from_sku(input.sku))
    /\ UNCHANGED << input, codecVars, sessionVars, managerVars, lockVars >>

NextPure ==
    \/ ApplyDeriveSku
    \/ ApplyModelFromSku
    \/ ApplyToDevice
    \/ ApplyFromDevice
    \/ ApplyCustomEq
    \/ ApplyParseBattery
    \/ ApplyEncode
    \/ ApplyCrc16

SpecPure == InitPure /\ [][NextPure]_vars

(***************************************************************************)
(* Claims about the pure functions, checked under SpecPure.                *)
(***************************************************************************)
\* the function has been applied to the input
Applied(fn) == input.fn = fn /\ output.tag = "Returned"

\* the rules of the SKU of a serial of eight characters or more; the
\* characters are counted from 1 here
ReferenceSku(serial) ==
    IF serial = DEBUG_SERIAL THEN Some(<< 48, 49 >>)
    ELSE IF SubSeq(serial, 1, 2) = << 77, 65 >>
    THEN IF SubSeq(serial, 7, 8) \in { << 50, 50 >>, << 50, 51 >> }
         THEN Some(<< 49, 52 >>)
         ELSE IF SubSeq(serial, 7, 8) = << 50, 52 >>
         THEN Some(<< 49, 49, 50, 48, 48, 48, 48, 53 >>)
         ELSE None
    ELSE IF SubSeq(serial, 1, 2) \in { << 83, 72 >>, << 49, 51 >> }
    THEN Some(SubSeq(serial, 5, 6))
    ELSE None

C23_NeverAborts ==
    Applied("derive_sku_from_serial")
       => /\ output.value # Panic
          /\ output.value = None \/ output.value.tag = "Some"
          /\ Len(input.serial) < 6 => output.value = None
          /\ (/\ Len(input.serial) >= 6
              /\ SubSeq(input.serial, 1, 2) = << 77, 65 >>
              /\ \/ Len(input.serial) < 8
                 \/ SubSeq(input.serial, 7, 8) \notin
                       { << 50, 50 >>, << 50, 51 >>, << 50, 52 >> })
                => output.value = None

\* C24: for a payload of n <= 255 bytes encode returns 8 + n + 2 bytes: the
\* magic 55 60 01, the command low byte first, n, 0x00, the operation id, the
\* payload, and the crc16 of those 8 + n bytes low byte first; the battery
\* request with operation id 0x10 is 10 bytes that start 55 60 01 07 C0 00 00
\* 10.
C24_FrameLayout ==
    Applied("encode")
       => LET n == Len(input.packet.payload)
              crc == crc16(SubSeq(output.value, 1, 8 + n))
          IN  /\ Len(output.value) = 8 + n + 2
              /\ SubSeq(output.value, 1, 3) = << \h55, \h60, \h01 >>
              /\ output.value[4] = input.packet.command % 256
              /\ output.value[5] = input.packet.command \div 256
              /\ output.value[6] = n
              /\ output.value[7] = \h00
              /\ output.value[8] = input.packet.operation_id
              /\ SubSeq(output.value, 9, 8 + n) = input.packet.payload
              /\ output.value[8 + n + 1] = crc % 256
              /\ output.value[8 + n + 2] = crc \div 256
              /\ input.packet = [command |-> \hC007, operation_id |-> \h10,
                                 payload |-> << >>]
                    => /\ Len(output.value) = 10
                       /\ SubSeq(output.value, 1, 8) =
                             << \h55, \h60, \h01, \h07, \hC0, \h00, \h00, \h10 >>

\* a frame with the longest payload has been encoded
C24_Witness ==
    /\ Applied("encode")
    /\ Len(input.packet.payload) = 255
    /\ input.packet.command = \hC007
    /\ Len(output.value) = 265

\* the j-th bit of the bytes, the lowest bit of a byte first, j from 1
BitOf(buf, j) == (buf[(j - 1) \div 8 + 1] \div (2 ^ ((j - 1) % 8))) % 2

\* the reflected CRC-16 of polynomial 0xA001 from the j-th bit of the bytes
\* on, crc being the register, one bit at a time: the register moves one
\* place to the right, and the polynomial is added when the bit that left it
\* differs from the bit of the buffer
RECURSIVE ReferenceCrc(_, _, _)
ReferenceCrc(buf, j, crc) ==
    IF j > 8 * Len(buf) \/ crc > \hFFFF THEN crc
    ELSE ReferenceCrc(buf, j + 1,
                      IF crc % 2 # BitOf(buf, j)
                      THEN Xor(crc \div 2, \hA001)
                      ELSE crc \div 2)

\* C25: crc16 is the reflected CRC-16 with initial value 0xFFFF and polynomial
\* 0xA001, lowest bit first, no final XOR, within 16 bits; of the bytes
\* 55 60 01 34 12 02 00 01 AA BB it is 0xFA6A.
C25_Crc16 ==
    Applied("crc16")
       => /\ output.value \in 0..\hFFFF
          /\ output.value = ReferenceCrc(input.buffer, 1, \hFFFF)
          /\ input.buffer = CrcVector => output.value = \hFA6A

\* the CRC of the known vector has been computed
C25_Witness ==
    Applied("crc16") /\ input.buffer = CrcVector /\ output.value = \hFA6A

\* the reading of a device in a payload: the percentage is the low seven bits
\* and charging the top bit of the byte behind the device's id, Disconnected
\* if the id is not among the entries
ReadingIn(payload, id) ==
    LET at == { k \in 1..((Len(payload) - 1) \div 2) : payload[2 * k] = id }
    IN  IF at = { } THEN Disconnected
        ELSE LET byte == payload[2 * LastIndex(at) + 1]
             IN  Level(byte % 128, (byte \div 128) % 2 = 1)

\* C26: for every battery state, each device Disconnected or at a level of
\* 0..127 percent, charging or not, parse_battery_payload of the packed state
\* is the state: the percentage is the byte's low seven bits, charging its
\* top bit, and a device that is not in the payload stays Disconnected.
C26_BatteryRoundTrip ==
    Applied("parse_battery_payload")
       => /\ output.value = input.status
          /\ output.value.left = ReadingIn(input.payload, \h02)
          /\ output.value.right = ReadingIn(input.payload, \h03)
          /\ output.value.case = ReadingIn(input.payload, \h04)

\* a state with a charging device at 127 percent, a device at 0 percent and
\* a device that is not connected has come back
C26_Witness ==
    /\ Applied("parse_battery_payload")
    /\ input.payload = << 2, \h04, \hFF, \h02, \h00 >>
    /\ output.value = [left |-> Level(0, FALSE), right |-> Disconnected,
                       case |-> Level(127, TRUE)]

\* the pattern has a bit set in its first three bytes
TopBitsSet(v) == v[1] # 0 \/ v[2] # 0 \/ v[3] # 0

\* the four bytes of a pattern, last byte first
Reversed(v) == << v[4], v[3], v[2], v[1] >>

\* the indexes, from 0, of the slots of the total and of the three bands
EqSlots == (1..4) \cup (6..9) \cup (19..22) \cup (32..35)

\* the encoded equalizer is the template outside the slots, has the reversed
\* patterns of mid, treble and bass at 6, 19 and 32, and decodes to the same
\* three patterns
EqLayout ==
    LET encoded == output.value.encoded
    IN  /\ \A i \in 0..(Len(encoded) - 1) :
             i \notin EqSlots => encoded[i + 1] = CUSTOM_EQ_TEMPLATE[i + 1]
        /\ SubSeq(encoded, 7, 10) = Reversed(input.eq.mid)
        /\ SubSeq(encoded, 20, 23) = Reversed(input.eq.treble)
        /\ SubSeq(encoded, 33, 36) = Reversed(input.eq.bass)
        /\ output.value.decoded = Some(input.eq)

\* every band of the input has a bit set in its first three bytes
EqInRange ==
    /\ TopBitsSet(input.eq.bass)
    /\ TopBitsSet(input.eq.mid)
    /\ TopBitsSet(input.eq.treble)

LargestMagnitude(eq) ==
    LET bands == { eq.mid, eq.treble, eq.bass }
    IN  f32_abs(CHOOSE v \in bands :
                  \A w \in bands : f32_magnitude(w) <= f32_magnitude(v))

\* C28: the bytes encode_custom_eq writes at 1..5 are encode_eq_float(-m,
\* total) for m the largest magnitude of the three bands, negative bands
\* included, and they are 00 00 00 80 exactly when all three bands are zero.
C28_TotalSlot ==
    Applied("encode_custom_eq")
       => LET total == SubSeq(output.value.encoded, 2, 5)
          IN  /\ total = encode_eq_float(
                            f32_neg(LargestMagnitude(input.eq)), TRUE)
              /\ total = << \h00, \h00, \h00, \h80 >>
                    <=> /\ f32_is_zero(input.eq.mid)
                        /\ f32_is_zero(input.eq.treble)
                        /\ f32_is_zero(input.eq.bass)

\* the device codes of the six levels
AncCodes ==
    [Off |-> \h05, Transparency |-> \h07, NoiseCancellationLow |-> \h03,
     NoiseCancellationHigh |-> \h01, NoiseCancellationMid |-> \h02,
     NoiseCancellationAdaptive |-> \h04]

\* C29: from_device(to_device(x)) is Some(x) for each of the six levels, the
\* codes are those of the table and differ from each other, and from_device
\* gives None for each of the other 250 bytes.
C29_AncCodes ==
    /\ AncLevel = DOMAIN AncCodes
    /\ \A a, b \in AncLevel : a # b => AncCodes[a] # AncCodes[b]
    /\ Applied("to_device")
          => /\ output.value.code = AncCodes[input.level]
             /\ output.value.level = Some(input.level)
    /\ Applied("from_device")
          => IF \E a \in AncLevel : AncCodes[a] = input.value
             THEN /\ output.value # None
                  /\ AncCodes[output.value.value] = input.value
             ELSE output.value = None

\* NC-Mid has gone to the device and come back
C29_Witness ==
    /\ Applied("to_device")
    /\ input.level = "NoiseCancellationMid"
    /\ output.value = [code |-> \h02, level |-> Some("NoiseCancellationMid")]

\* the ids of the catalog
ModelIds == { MODEL_LIST[i].id : i \in 1..Len(MODEL_LIST) }

\* the SKUs of the map: those of the pairs whose model id is in the catalog
MappedSkus ==
    { SKU_TO_MODEL_PAIRS[i][1] :
        i \in { j \in 1..Len(SKU_TO_MODEL_PAIRS) :
                  SKU_TO_MODEL_PAIRS[j][2] \in ModelIds } }

\* the ids of the catalog differ from each other, the SKUs have two
\* characters but for "11200005", and a SKU of the map resolves to an entry
\* of the catalog, any other SKU to none
RegistrySound ==
    /\ Cardinality(ModelIds) = Len(MODEL_LIST)
    /\ \A sku \in MappedSkus :
         Len(sku) = 2 \/ sku = << 49, 49, 50, 48, 48, 48, 48, 53 >>
    /\ << 49, 49, 50, 48, 48, 48, 48, 53 >> \in MappedSkus
    /\ Applied("model_from_sku")
          => IF input.sku \in MappedSkus
             THEN /\ output.value # None
                  /\ \E i \in 1..Len(MODEL_LIST) :
                       output.value.value = MODEL_LIST[i]
                  /\ \E j \in 1..Len(SKU_TO_MODEL_PAIRS) :
                       /\ SKU_TO_MODEL_PAIRS[j][1] = input.sku
                       /\ SKU_TO_MODEL_PAIRS[j][2] = output.value.value.id
             ELSE output.value = None

LockOps ==
    { "read_battery", "read_anc", "set_anc", "ring_buds", "detect_serial",
      "set_model_by_id", "set_model_base", "set_model_from_sku", "info",
      "connect", "session", "disconnect" }

SessionLockOps == LockOps \ { "connect", "session", "disconnect" }

NoLock == [lock |-> "none", mode |-> "none"]

\* the lock a task at the place is waiting for: lock().await and
\* write().await are exclusive, read().await is shared
Awaits(place) ==
    CASE place = "model_base"        -> [lock |-> "model", mode |-> "read"]
      [] place = "connection.lock"   -> [lock |-> "connection", mode |-> "write"]
      [] place = "next_operation_id" -> [lock |-> "operation_id", mode |-> "write"]
      [] place = "writer.lock"       -> [lock |-> "writer", mode |-> "write"]
      [] place = "read_buffer.lock"  -> [lock |-> "read_buffer", mode |-> "write"]
      [] place = "reader.lock"       -> [lock |-> "reader", mode |-> "write"]
      [] place = "extend.lock"       -> [lock |-> "read_buffer", mode |-> "write"]
      [] place = "model.write"       -> [lock |-> "model", mode |-> "write"]
      [] place = "session.write"     -> [lock |-> "session", mode |-> "write"]
      [] place = "session.read"      -> [lock |-> "session", mode |-> "read"]
      [] OTHER -> NoLock

\* where the task is once the lock is granted
Holding(place) ==
    CASE place = "model_base"        -> "base"
      [] place = "connection.lock"   -> "locked"
      [] place = "next_operation_id" -> "operation"
      [] place = "writer.lock"       -> "write"
      [] place = "read_buffer.lock"  -> "try_parse"
      [] place = "reader.lock"       -> "read"
      [] place = "extend.lock"       -> "extend"
      [] place = "model.write"       -> "store"
      [] place = "session.write"     -> "slot"
      [] place = "session.read"      -> "clone"

\* a bug: the guard of model_base lives on to the end of the operation
Drops_model_kept(place, next) ==
    CASE place = "base"      -> IF next = "idle" THEN { "model" } ELSE {}
      [] place = "operation" -> { "operation_id" }
      [] place = "write"     -> { "writer" } \cup
                                (IF next = "idle"
                                 THEN { "connection", "model" } ELSE {})
      [] place = "try_parse" -> { "read_buffer" } \cup
                                (IF next \in { "idle", "model.write" }
                                 THEN { "connection", "model" } ELSE {})
      [] place = "read"      -> IF next = "extend.lock" THEN {}
                                ELSE { "reader", "connection", "model" }
      [] place = "extend"    -> { "read_buffer", "reader" }
      [] place = "store"     -> { "model" }
      [] place = "slot"      -> IF next = "open" THEN {} ELSE { "session" }
      [] place = "open"      -> { "session" }
      [] place = "clone"     -> { "session" }
      [] OTHER -> {}

\* the guards that go out of scope when the task goes from the place to the
\* next one ("idle": the operation returns): the guard of model_base is a
\* temporary of its statement, the guard of next_operation_id ends with the
\* function, send_command's writer with send_command, the read_buffer guard of
\* the parse with its block, reader and the second read_buffer guard with the
\* iteration of the loop, and the connection guard with the operation, or,
\* in detect_serial, with the block around the transaction
Drops(place, next) ==
    CASE place = "base"      -> { "model" }
      [] place = "operation" -> { "operation_id" }
      [] place = "write"     -> { "writer" } \cup
                                (IF next = "idle" THEN { "connection" } ELSE {})
      [] place = "try_parse" -> { "read_buffer" } \cup
                                (IF next \in { "idle", "model.write" }
                                 THEN { "connection" } ELSE {})
      [] place = "read"      -> IF next = "extend.lock" THEN {}
                                ELSE { "reader", "connection" }
      [] place = "extend"    -> { "read_buffer", "reader" }
      [] place = "store"     -> { "model" }
      [] place = "slot"      -> IF next = "open" THEN {} ELSE { "session" }
      [] place = "open"      -> { "session" }
      [] place = "clone"     -> { "session" }
      [] OTHER -> {}

\* the task goes on to the next place: the guards that end here are dropped,
\* and a lock request joins the queue of its lock
Move(t, next) ==
    /\ guards' = [l \in Locks |->
                     IF l \in Drops(lpc[t].place, next)
                     THEN { g \in guards[l] : g.task # t }
                     ELSE guards[l]]
    /\ lpc' = [lpc EXCEPT ![t].place = next]
    /\ waiters' = IF Awaits(next) = NoLock THEN waiters
                  ELSE [waiters EXCEPT ![Awaits(next).lock] = Append(@, t)]

\* the lock can be granted in the mode: a shared guard next to shared ones,
\* an exclusive one alone
Grantable(l, mode) ==
    IF mode = "read" THEN \A g \in guards[l] : g.mode = "read"
    ELSE guards[l] = {}

\* a task with a handle calls an operation and runs up to its first lock
\* request; set_model_by_id and set_model_from_sku may return UnknownModel
\* before any
LockCall(t, op) ==
    /\ lpc[t].place = "idle"
    /\ op \in SessionLockOps => handle[t] # 0
    /\ \E first \in
          CASE op \in { "read_anc", "set_anc", "ring_buds", "info" } ->
                  { "model_base" }
            [] op \in { "read_battery", "detect_serial" } ->
                  { "connection.lock" }
            [] op = "set_model_base" -> { "model.write" }
            [] op \in { "set_model_by_id", "set_model_from_sku" } ->
                  { "model.write", "idle" }
            [] op \in { "connect", "disconnect" } -> { "session.write" }
            [] op = "session" -> { "session.read" } :
         /\ lpc' = [lpc EXCEPT ![t] = [op |-> op, place |-> first]]
         /\ waiters' = IF Awaits(first) = NoLock THEN waiters
                       ELSE [waiters EXCEPT ![Awaits(first).lock] = Append(@, t)]
    /\ UNCHANGED guards
    /\ UNCHANGED << codecVars, sessionVars, managerVars, pureVars >>

\* the lock request of the task at the head of the queue is granted
Acquire(t) ==
    LET want == Awaits(lpc[t].place)
    IN  /\ want # NoLock
        /\ waiters[want.lock] # << >>
        /\ Head(waiters[want.lock]) = t
        /\ Grantable(want.lock, want.mode)
        /\ guards' = [guards EXCEPT ![want.lock] =
                         @ \cup { [task |-> t, mode |-> want.mode] }]
        /\ waiters' = [waiters EXCEPT ![want.lock] = Tail(@)]
        /\ lpc' = [lpc EXCEPT ![t].place = Holding(lpc[t].place)]
        /\ UNCHANGED << codecVars, sessionVars, managerVars, pureVars >>

\* model_base has read the base: info returns, require_support returns
\* Unsupported or lets the operation go on to the connection mutex, and
\* ring_buds goes on
ReadBase(t) ==
    /\ lpc[t].place = "base"
    /\ \E next \in
          CASE lpc[t].op = "info" -> { "idle" }
            [] lpc[t].op = "ring_buds" -> { "connection.lock" }
            [] OTHER -> { "idle", "connection.lock" } :
         Move(t, next)
    /\ UNCHANGED << codecVars, sessionVars, managerVars, pureVars >>

\* with the connection guard the operation calls send_command, directly or
\* through transact, which asks for the next operation id
LockedSend(t) ==
    /\ lpc[t].place = "locked"
    /\ Move(t, "next_operation_id")
    /\ UNCHANGED << codecVars, sessionVars, managerVars, pureVars >>

\* next_operation_id returns; send_command encodes and asks for the writer
NextOperationId(t) ==
    /\ lpc[t].place = "operation"
    /\ Move(t, "writer.lock")
    /\ UNCHANGED << codecVars, sessionVars, managerVars, pureVars >>

\* write_all and flush: on an error the operation returns; after a send-only
\* operation too; transact goes on to read_packet
WriteAll(t) ==
    /\ lpc[t].place = "write"
    /\ \E next \in
          IF lpc[t].op \in { "set_anc", "ring_buds" } THEN { "idle" }
          ELSE { "idle", "read_buffer.lock" } :
         Move(t, next)
    /\ UNCHANGED << codecVars, sessionVars, managerVars, pureVars >>

\* try_parse on the accumulator: a packet the matcher accepts (the operation
\* returns, detect_serial goes on and may store a model), a packet it rejects
\* (the next read_packet, or Timeout), an error, or nothing yet (Timeout, or
\* on to the reader)
TryParse(t) ==
    /\ lpc[t].place = "try_parse"
    /\ \E next \in
          { "idle", "read_buffer.lock", "reader.lock" } \cup
          (IF lpc[t].op = "detect_serial" THEN { "model.write" } ELSE {}) :
         Move(t, next)
    /\ UNCHANGED << codecVars, sessionVars, managerVars, pureVars >>

\* reader.read under the timeout: bytes, for which the accumulator is
\* locked again, or end of stream, an error or the timeout
Read(t) ==
    /\ lpc[t].place = "read"
    /\ \E next \in { "idle", "extend.lock" } : Move(t, next)
    /\ UNCHANGED << codecVars, sessionVars, managerVars, pureVars >>

\* buffer.extend_from_slice, and the iteration ends
Extend(t) ==
    /\ lpc[t].place = "extend"
    /\ Move(t, "read_buffer.lock")
    /\ UNCHANGED << codecVars, sessionVars, managerVars, pureVars >>

\* the descriptor is stored and the operation returns
StoreModel(t) ==
    /\ lpc[t].place = "store"
    /\ Move(t, "idle")
    /\ UNCHANGED << codecVars, sessionVars, managerVars, pureVars >>

\* with the write guard of the slot: disconnect empties it or returns
\* NoSession; connect returns AlreadyConnected or goes on to open the channel
Slot(t) ==
    /\ lpc[t].place = "slot"
    /\ IF lpc[t].op = "connect" /\ manager_session = 0
       THEN /\ Move(t, "open")
            /\ UNCHANGED managerVars
       ELSE /\ Move(t, "idle")
            /\ manager_session' =
                  IF lpc[t].op = "disconnect" THEN 0 ELSE manager_session
            /\ UNCHANGED << write_guard, sessions, handle, mpc, mret >>
    /\ UNCHANGED << codecVars, sessionVars, pureVars >>

\* EarConnection::open returns: an error, or the connection, of which the
\* session is made and installed; the locks are those of one session, so the
\* channel opens while no task has a handle of an earlier one
Open(t) ==
    /\ lpc[t].place = "open"
    /\ Move(t, "idle")
    /\ \/ UNCHANGED managerVars
       \/ /\ \A u \in Tasks : handle[u] = 0
          /\ manager_session' = 1
          /\ handle' = [handle EXCEPT ![t] = 1]
          /\ UNCHANGED << write_guard, sessions, mpc, mret >>
    /\ UNCHANGED << codecVars, sessionVars, pureVars >>

\* session() clones the handle in the slot, or returns NoSession
CloneHandle(t) ==
    /\ lpc[t].place = "clone"
    /\ Move(t, "idle")
    /\ handle' = [handle EXCEPT ![t] =
                     IF manager_session = 0 THEN @ ELSE manager_session]
    /\ UNCHANGED << manager_session, write_guard, sessions, mpc, mret >>
    /\ UNCHANGED << codecVars, sessionVars, pureVars >>

NextLocks ==
    \/ \E t \in Tasks : \E op \in LockOps : LockCall(t, op)
    \/ \E t \in Tasks : Acquire(t)
    \/ \E t \in Tasks : ReadBase(t)
    \/ \E t \in Tasks : LockedSend(t)
    \/ \E t \in Tasks : NextOperationId(t)
    \/ \E t \in Tasks : WriteAll(t)
    \/ \E t \in Tasks : TryParse(t)
    \/ \E t \in Tasks : Read(t)
    \/ \E t \in Tasks : Extend(t)
    \/ \E t \in Tasks : StoreModel(t)
    \/ \E t \in Tasks : Slot(t)
    \/ \E t \in Tasks : Open(t)
    \/ \E t \in Tasks : CloneHandle(t)

SpecLocks == Init /\ [][NextLocks]_vars

(***************************************************************************)
(* Claims about the locks, checked under SpecLocks.                        *)
(***************************************************************************)
\* the locks of which the task holds a guard
Held(t) == { l \in Locks : \E g \in guards[l] : g.task = t }

\* the task is waiting for a lock
Waiting(t) == Awaits(lpc[t].place) # NoLock

\* the task is waiting and its request cannot be granted now
Blocked(t) ==
    /\ Waiting(t)
    /\ LET want == Awaits(lpc[t].place)
       IN  ~(Head(waiters[want.lock]) = t /\ Grantable(want.lock, want.mode))

\* the order of the locks: the connection mutex before the locks inside the
\* connection, and the reader before the accumulator
LockOrder ==
    { << "connection", l >> :
         l \in { "operation_id", "writer", "read_buffer", "reader" } }
       \cup { << "reader", "read_buffer" >> }

\* C33: no interleaving of manager and session operations deadlocks: while
\* a task is in an operation some task in an operation can take a step, and a
\* task that holds a guard never waits behind another task; a task waits for
\* a lock only with guards of locks before it in the order; the accumulator
\* is released before the reader is requested; no task holds the model lock
\* while it waits for the connection mutex, or the connection mutex while it
\* waits for the model lock.
C33_NoDeadlock ==
    /\ (\E t \in Tasks : lpc[t].place # "idle")
          => \E t \in Tasks : lpc[t].place # "idle" /\ ~Blocked(t)
    /\ \A t \in Tasks : (Held(t) # {}) => ~Blocked(t)
    /\ \A t \in Tasks :
         Waiting(t)
            => \A h \in Held(t) : << h, Awaits(lpc[t].place).lock >> \in LockOrder
    /\ \A t \in Tasks :
         lpc[t].place = "reader.lock" => "read_buffer" \notin Held(t)
    /\ \A t \in Tasks :
         /\ lpc[t].place = "connection.lock" => "model" \notin Held(t)
         /\ lpc[t].place \in { "model_base", "model.write" }
               => "connection" \notin Held(t)

\* a task has the connection mutex, the reader and the accumulator, and the
\* other one waits for the connection mutex, having read the base
C33_Witness ==
    \E t, u \in Tasks :
        /\ Held(t) = { "connection", "reader", "read_buffer" }
        /\ lpc[u] = [op |-> "read_anc", place |-> "connection.lock"]
        /\ Blocked(u)
        /\ manager_session = 0
        /\ handle[u] = 1

(***************************************************************************)
(* Termination: two callers, a clock that advances, tasks that are         *)
(* scheduled, and a device that does what it likes.                        *)
(***************************************************************************)
\* bytes that are no frame and start none: try_parse drops them
GarbageBytes == { 0 }

\* a device that sends no frames sends a byte of garbage; it may do so for
\* ever, the channel holding what has not been read yet
DeviceGarbage ==
    /\ ~closed
    /\ channel = << >>
    /\ dev_sent = << >>
    /\ \E b \in GarbageBytes : channel' = << b >>
    /\ UNCHANGED << model, conn_owner, operation_id, read_buffer, wire,
                    closed, pc, call, ret, deadline, outbox, seen, sent,
                    dev_sent >>
    /\ UNCHANGED codecVars
    /\ UNCHANGED managerVars
    /\ UNCHANGED pureVars
    /\ UNCHANGED lockVars

\* the callers: one reads the battery, the other reads or sets the ANC level
LiveCalls(t) ==
    IF t = 1
    THEN { [op |-> "read_battery", arg |-> NoArgs] }
    ELSE { [op |-> "read_anc", arg |-> NoArgs],
           [op |-> "set_anc", arg |-> [level |-> "Off"]] }

\* a step of the task inside its operation
TaskStep(t) ==
    \/ Lock(t)
    \/ Send(t)
    \/ Flush(t)
    \/ ParseStep(t)
    \/ ReadBytes(t)
    \/ ReadEof(t)
    \/ ReadTimeout(t)

NextLive ==
    \/ \E t \in Tasks : \E c \in LiveCalls(t) : Call(t, c)
    \/ \E t \in Tasks : TaskStep(t)
    \/ DeviceReply
    \/ DeviceGarbage
    \/ DeviceClose
    \/ Tick

\* the task is scheduled: a step of it that stays possible is taken.  Send
\* and ParseStep have no condition but the place of the task, so their weak
\* fairness is that the task does not stay at them for ever
Scheduled(t) ==
    /\ WF_vars(Lock(t))
    /\ []<>(pc[t] # "send")
    /\ WF_vars(Flush(t))
    /\ []<>(pc[t] # "parse")
    /\ WF_vars(ReadBytes(t))
    /\ WF_vars(ReadEof(t))
    /\ WF_vars(ReadTimeout(t))

\* the tasks are scheduled and the clock advances; nothing is asked of the
\* device or of the callers
SpecLive ==
    /\ Init
    /\ [][NextLive]_vars
    /\ \A t \in Tasks : Scheduled(t)
    /\ WF_vars(Tick)

(***************************************************************************)
(* Claims about termination, checked under SpecLive.                       *)
(***************************************************************************)
\* the operation of the task has returned one of the results of a typed
\* operation, and the task does not hold the connection mutex
ReturnedTyped(t) ==
    /\ pc[t] = "done"
    /\ conn_owner # t
    /\ \/ ret[t].tag = "Ok"
       \/ /\ ret[t].tag = "Err"
          /\ ret[t].error \in { "Unsupported", "Timeout", "CrcMismatch", "Io" }

ModelCall(op, arg) ==
    [op |-> op, arg |-> arg, base |-> "unread", operation |-> 0,
     payload |-> << >>]

\* a bug: an id that is not in the catalog clears the descriptor
set_model_by_id_clears(t, id) ==
    /\ pc[t] = "idle"
    /\ call' = [call EXCEPT ![t] = ModelCall("set_model_by_id", [id |-> id])]
    /\ LET info == model_from_id(id)
       IN  IF info = None
           THEN /\ Return(t, UnknownModel)
                /\ model' = None
           ELSE LET descriptor ==
                       ModelDescriptor(info.value.base, Some(info.value.id),
                                       Some(info.value.name), None, None)
                IN  /\ model' = Some(descriptor)
                    /\ Return(t, Ok(descriptor))
    /\ UNCHANGED << operation_id, read_buffer, channel, wire, closed, outbox,
                    seen, sent, dev_sent >>
    /\ UNCHANGED codecVars
    /\ UNCHANGED managerVars
    /\ UNCHANGED pureVars
    /\ UNCHANGED lockVars

\* EarSessionHandle::set_model_by_id: UnknownModel for an id that is not in
\* the catalog, else the descriptor is replaced and its summary returned
set_model_by_id(t, id) ==
    /\ pc[t] = "idle"
    /\ call' = [call EXCEPT ![t] = ModelCall("set_model_by_id", [id |-> id])]
    /\ LET info == model_from_id(id)
       IN  IF info = None
           THEN /\ Return(t, UnknownModel)
                /\ UNCHANGED model
           ELSE LET descriptor ==
                       ModelDescriptor(info.value.base, Some(info.value.id),
                                       Some(info.value.name), None, None)
                IN  /\ model' = Some(descriptor)
                    /\ Return(t, Ok(descriptor))
    /\ UNCHANGED << operation_id, read_buffer, channel, wire, closed, outbox,
                    seen, sent, dev_sent >>
    /\ UNCHANGED codecVars
    /\ UNCHANGED managerVars
    /\ UNCHANGED pureVars
    /\ UNCHANGED lockVars

\* EarSessionHandle::set_model_from_sku: likewise by SKU, the descriptor
\* keeping the SKU and the serial it was given
set_model_from_sku(t, sku, serial) ==
    /\ pc[t] = "idle"
    /\ call' = [call EXCEPT ![t] =
                  ModelCall("set_model_from_sku",
                            [sku |-> sku, serial |-> serial])]
    /\ LET info == model_from_sku(sku)
       IN  IF info = None
           THEN /\ Return(t, UnknownModel)
                /\ UNCHANGED model
           ELSE LET descriptor ==
                       ModelDescriptor(info.value.base, Some(info.value.id),
                                       Some(info.value.name), Some(sku), serial)
                IN  /\ model' = Some(descriptor)
                    /\ Return(t, Ok(descriptor))
    /\ UNCHANGED << operation_id, read_buffer, channel, wire, closed, outbox,
                    seen, sent, dev_sent >>
    /\ UNCHANGED codecVars
    /\ UNCHANGED managerVars
    /\ UNCHANGED pureVars
    /\ UNCHANGED lockVars

\* ids and SKUs of the two models without ANC, and one of each that the
\* catalog does not have: "14" and "11200005", and "99"
ModelIdInputs == { "ear_stick", "flaaffy_white", "ear_9" }

SkuInputs ==
    { << 49, 52 >>, << 49, 49, 50, 48, 48, 48, 48, 53 >>, << 57, 57 >> }

\* "x,4,MA000022" and "x,4,MA000024": serials of an Ear (stick) and of an
\* Ear (open)
NoAncSerialLines ==
    { << 120, 44, 52, 44, 77, 65, 48, 48, 48, 48, 50, 50 >>,
      << 120, 44, 52, 44, 77, 65, 48, 48, 48, 48, 50, 52 >> }

\* the device answers the first request, a serial request, with the serial
\* of a model without ANC
DeviceIdentify ==
    /\ ~closed
    /\ dev_sent = << >>
    /\ Len(sent) = 1
    /\ FullyWritten(1)
    /\ FrameCommand(sent[1].frame) = protocol_command.REQUEST_SERIAL
    /\ \E line \in NoAncSerialLines :
         DeviceWrite(EarPacket(protocol_response.SERIAL,
                               FrameOperation(sent[1].frame), Ascii7(line)))
    /\ UNCHANGED << model, conn_owner, operation_id, read_buffer, wire,
                    closed, pc, call, ret, deadline, outbox, seen, sent >>
    /\ UNCHANGED codecVars
    /\ UNCHANGED managerVars
    /\ UNCHANGED pureVars
    /\ UNCHANGED lockVars

\* the device answers the requests it has received in full in their order,
\* each once
DeviceAnswer ==
    /\ ~closed
    /\ \E i \in { Len(dev_sent) + 1 } \cap (1..Len(sent)) :
         /\ FullyWritten(i)
         /\ \E reply \in DeviceReplies(FrameCommand(sent[i].frame)) :
              DeviceWrite(EarPacket(reply.command,
                                    FrameOperation(sent[i].frame),
                                    reply.payload))
    /\ UNCHANGED << model, conn_owner, operation_id, read_buffer, wire,
                    closed, pc, call, ret, deadline, outbox, seen, sent >>
    /\ UNCHANGED codecVars
    /\ UNCHANGED managerVars
    /\ UNCHANGED pureVars
    /\ UNCHANGED lockVars

\* the caller goes on after a set_model_*, and after a detect_serial that
\* was its first operation on the connection
AgainModel(t) ==
    /\ \/ call[t].op \in { "set_model_by_id", "set_model_from_sku" }
       \/ call[t].op = "detect_serial" /\ Len(sent) = 1
    /\ Again(t)

NextModel ==
    \/ \E c \in AllCalls : Call(1, c)
    \/ Lock(1)
    \/ Send(1)
    \/ Flush(1)
    \/ ParseStep(1)
    \/ ReadBytes(1)
    \/ Resolve(1)
    \/ AgainModel(1)
    \/ \E id \in ModelIdInputs : set_model_by_id(1, id)
    \/ \E sku \in SkuInputs : set_model_from_sku(1, sku, Some(Ear2Serial))
    \/ SetModelBaseIdle("B174")
    \/ DeviceIdentify
    \/ DeviceAnswer

SpecModel == Init /\ [][NextModel]_vars

(***************************************************************************)
(* Claims about the model descriptor, checked under SpecModel.             *)
(***************************************************************************)
\* the descriptor a session has: ModelDescriptor::default() while none was
\* stored
DescriptorOf(m) ==
    IF m = None THEN ModelDescriptor("Unknown", None, None, None, None)
    ELSE m.value

\* the step is the task's call of the set_model_* operation
SetsModel(t, op) ==
    pc[t] = "idle" /\ pc'[t] = "done" /\ call'[t].op = op

\* the descriptor of a catalog entry with a SKU and a serial
EntryDescriptor(info, sku, serial) ==
    ModelDescriptor(info.base, Some(info.id), Some(info.name), sku, serial)

\* C35: the descriptor starts as Unknown with every optional field absent
\* and changes only in a set_model_by_id, set_model_base or
\* set_model_from_sku that succeeds and in a detect_serial that resolves a
\* model; every other operation leaves it as it is, and so do
\* set_model_by_id and set_model_from_sku with an id or a SKU that the
\* catalog does not have, which return UnknownModel.
C35_ModelFrame ==
    /\ DescriptorOf(model) = ModelDescriptor("Unknown", None, None, None, None)
    /\ [][/\ model' # model
             => \/ \E t \in Tasks :
                     /\ SetsModel(t, "set_model_by_id")
                          \/ SetsModel(t, "set_model_from_sku")
                     /\ ret'[t].tag = "Ok"
                \/ \E t \in Tasks :
                     /\ pc[t] = "resolve" /\ pc'[t] = "done"
                     /\ ret'[t].tag = "Ok"
                     /\ ret'[t].value.model_id # None
                \/ /\ UNCHANGED << pc, call, ret >>
                   /\ \E b \in ModelBase :
                        model' = Some(ModelDescriptor(b, None, None, None, None))
          /\ \A t \in Tasks :
               SetsModel(t, "set_model_by_id")
                  => IF call'[t].arg.id \in ModelIds
                     THEN /\ model' = Some(EntryDescriptor(
                                        model_from_id(call'[t].arg.id).value,
                                        None, None))
                          /\ ret'[t] = Ok(model'.value)
                     ELSE ret'[t] = UnknownModel /\ model' = model
          /\ \A t \in Tasks :
               SetsModel(t, "set_model_from_sku")
                  => IF call'[t].arg.sku \in MappedSkus
                     THEN /\ model' = Some(EntryDescriptor(
                                        model_from_sku(call'[t].arg.sku).value,
                                        Some(call'[t].arg.sku),
                                        call'[t].arg.serial))
                          /\ ret'[t] = Ok(model'.value)
                     ELSE ret'[t] = UnknownModel /\ model' = model
         ]_vars

\* a set_model_by_id with an id that the catalog does not have has returned
\* UnknownModel on a session whose model detect_serial had resolved
C35_Witness ==
    /\ pc[1] = "done"
    /\ call[1].op = "set_model_by_id"
    /\ ret[1] = UnknownModel
    /\ model # None
    /\ model.value.serial # None
    /\ model.value.serial # Some(Ear2Serial)

\* the descriptor names a catalog entry with anc_capable = false
NoAnc(m) ==
    /\ m # None
    /\ m.value.model_id # None
    /\ \E i \in 1..Len(MODEL_LIST) :
         /\ MODEL_LIST[i].id = m.value.model_id.value
         /\ ~MODEL_LIST[i].anc_capable

\* C40: read_anc and set_anc pass the capability check only on sessions whose
\* catalog model has anc_capable = true: on a session whose descriptor was set
\* from an entry with anc_capable = false, by id, by SKU or by detect_serial,
\* they return Unsupported and nothing is written to the wire.
C40_AncCapable ==
    [][\A t \in Tasks :
         (/\ pc[t] = "idle" /\ pc'[t] # "idle"
          /\ call'[t].op \in { "read_anc", "set_anc" }
          /\ NoAnc(model))
            => /\ pc'[t] = "done"
               /\ ret'[t].tag = "Err"
               /\ ret'[t].error = "Unsupported"
               /\ wire' = wire
               /\ sent' = sent
      ]_vars

(***************************************************************************)
(* Replies whose payload cannot be decoded: one caller of read_anc and     *)
(* get_custom_eq, a device that answers with decodable and undecodable     *)
(* replies, and the clock.                                                 *)
(***************************************************************************)
DecodeCalls ==
    { [op |-> "read_anc", arg |-> NoArgs],
      [op |-> "get_custom_eq", arg |-> NoArgs] }

NextDecode ==
    \/ \E c \in DecodeCalls : Call(1, c)
    \/ Lock(1)
    \/ Send(1)
    \/ Flush(1)
    \/ ParseStep(1)
    \/ ReadBytes(1)
    \/ ReadTimeout(1)
    \/ DeviceReply
    \/ Tick

SpecDecode == Init /\ [][NextDecode]_vars

\* the reply commands the matcher of the operation looks at
AcceptedCommands(op) ==
    CASE op = "read_anc" -> { protocol_response.ANC_PRIMARY,
                              protocol_response.ANC_SECONDARY }
      [] op = "get_custom_eq" -> { protocol_response.CUSTOM_EQ }
      [] OTHER -> { }

\* a packet with an accepted reply command whose payload does not decode
Undecodable(op, packet) ==
    /\ packet.command \in AcceptedCommands(op)
    /\ matcher(op, packet) = None

\* the last packet the transaction of the task took off the accumulator was
\* an undecodable reply
LastUndecodable(t) ==
    /\ call[t].op \in { "read_anc", "get_custom_eq" }
    /\ seen[t] # << >>
    /\ Undecodable(call[t].op, seen[t][Len(seen[t])])

\* some packet the transaction of the task took off was an undecodable reply
SawUndecodable(t) ==
    /\ call[t].op \in { "read_anc", "get_custom_eq" }
    /\ \E i \in 1..Len(seen[t]) : Undecodable(call[t].op, seen[t][i])

\* C36: an undecodable reply (read_anc: byte[1] missing or no ANC code,
\* get_custom_eq: a 0x4044 payload too short) is dropped like a non-matching
\* packet: the operation returns the value of a later decodable reply that
\* comes before the deadline and a Timeout otherwise, never a decode error,
\* and it does not go on waiting once the deadline is reached.
C36_UndecodableDropped ==
    \A t \in Tasks :
        /\ (SawUndecodable(t) /\ pc[t] = "done") =>
              \/ /\ ret[t].tag = "Ok"
                 /\ ~LastUndecodable(t)
                 /\ ret[t].value = matcher(call[t].op, seen[t][Len(seen[t])]).value
              \/ /\ ret[t].tag = "Err"
                 /\ ret[t].error = "Timeout"
        /\ (LastUndecodable(t) /\ pc[t] = "read" /\ deadline[t].transact = 0)
              => deadline[t].read = 0

\* the part of C36 about decoding alone: the undecodable reply is dropped, the
\* result is the value of a later decodable reply or a Timeout
UndecodableNeverAnError ==
    \A t \in Tasks :
        (SawUndecodable(t) /\ pc[t] = "done") =>
            \/ /\ ret[t].tag = "Ok"
               /\ ~LastUndecodable(t)
               /\ ret[t].value = matcher(call[t].op, seen[t][Len(seen[t])]).value
            \/ /\ ret[t].tag = "Err"
               /\ ret[t].error = "Timeout"

\* a decodable reply was returned after an undecodable one had been dropped
DroppedThenDecoded ==
    /\ SawUndecodable(1)
    /\ pc[1] = "done"
    /\ ret[1].tag = "Ok"
    /\ call[1].op = "get_custom_eq"

(***************************************************************************)
(* A connect whose channel does not open, checked under SpecManager.       *)
(***************************************************************************)
\* the step in which EarConnection::open returns an error to connect
OpenFails(t) ==
    /\ mpc[t] = "open"
    /\ mpc'[t] = "idle"
    /\ mret'[t] = ManagerResult("connect", "Io", 0)

\* the step in which a call of the manager returns to task t
ManagerReturns(t) ==
    /\ mret'[t] # mret[t]
    /\ mret'[t].op \in { "connect", "session", "disconnect" }

\* C37: when EarConnection::open fails inside connect, connect returns Io,
\* the slot stays empty, no session or handle is made and the write lock is
\* released; a connect is refused with AlreadyConnected only on an occupied
\* slot, so the connect after a failed one goes on to open the channel; and
\* while a connect is opening the channel no session(), disconnect() or
\* connect() of another task returns, and the slot is changed by nobody else:
\* they complete after it and see what it left in the slot.
C37_OpenFails ==
    [][\A t \in Tasks :
         /\ OpenFails(t) =>
               /\ manager_session = 0
               /\ manager_session' = 0
               /\ sessions' = sessions
               /\ handle'[t] = 0
               /\ write_guard = t
               /\ write_guard' = 0
         /\ (ManagerReturns(t) /\ mret'[t].tag = "AlreadyConnected") =>
               manager_session # 0
         /\ (Opening # { } /\ t \notin Opening) =>
               /\ ~ManagerReturns(t)
               /\ handle[t] = 0 => handle'[t] = 0
               /\ mpc'[t] # "open"
         /\ (ManagerReturns(t) /\ mret'[t].op = "session") =>
               /\ Opening = { }
               /\ mret'[t].tag = (IF manager_session = 0 THEN "NoSession" ELSE "Ok")
               /\ mret'[t].session = manager_session
         /\ (ManagerReturns(t) /\ mret'[t].op = "disconnect") =>
               /\ Opening = { }
               /\ mret'[t].tag = (IF manager_session = 0 THEN "NoSession" ELSE "Ok")
               /\ manager_session' = 0
      ]_vars

\* a connect has failed with Io and the connect of another task, called
\* after it, is opening the channel on the empty slot
C37_Witness ==
    \E t, u \in Tasks :
        /\ t # u
        /\ mret[t] = ManagerResult("connect", "Io", 0)
        /\ mpc[t] = "idle"
        /\ mpc[u] = "open"
        /\ manager_session = 0
        /\ write_guard = u

(***************************************************************************)
(* The payload parsers of service.rs and the payload of                    *)
(* set_led_case_colors, on payloads and pixel lists of every shape.        *)
(***************************************************************************)
\* the indices (0-based) of payload that the loop of parse_battery_payload
\* reads from entry i on: payload[idx] and payload[idx + 1]
RECURSIVE battery_reads(_, _, _)
battery_reads(payload, count, i) ==
    IF i >= count THEN { }
    ELSE LET idx == 1 + i * 2
         IN  IF idx + 1 >= Len(payload) THEN { }
             ELSE { idx, idx + 1 } \cup battery_reads(payload, count, i + 1)

\* the indices the loop of parse_gestures reads: payload[base] to
\* payload[base + 3]
RECURSIVE gestures_reads(_, _, _)
gestures_reads(payload, count, i) ==
    IF i >= count THEN { }
    ELSE LET base == 1 + i * 4
         IN  IF base + 3 >= Len(payload) THEN { }
             ELSE base..(base + 3) \cup gestures_reads(payload, count, i + 1)

\* the indices the loop of parse_led_colors reads: payload[base] to
\* payload[base + 2]
RECURSIVE led_colors_reads(_, _, _)
led_colors_reads(payload, count, index) ==
    IF index >= count THEN { }
    ELSE LET base == 2 + index * 4
         IN  IF base + 2 >= Len(payload) THEN { }
             ELSE base..(base + 2) \cup led_colors_reads(payload, count, index + 1)

\* the indices of payload a parser reads: none of an empty payload, else
\* payload[0] and those of its loop
reads(fn, payload) ==
    IF payload = << >> THEN { }
    ELSE { 0 } \cup
         CASE fn = "parse_battery_payload" -> battery_reads(payload, payload[1], 0)
           [] fn = "parse_gestures" -> gestures_reads(payload, payload[1], 0)
           [] fn = "parse_led_colors" -> led_colors_reads(payload, payload[1], 0)

Parsers == { "parse_battery_payload", "parse_gestures", "parse_led_colors" }

\* count bytes from none to more than any payload holds
CountBytes == { 0, 1, 2, 3, 255 }

\* a list of 63 pixels
LedPixelsMax == [i \in 1..63 |-> << i, (2 * i) % 256, 255 - i >>]

ParserInputs ==
    LET bytes    == { \h02, \h84 }
        payloads == { << >> } \cup
                    { << c >> \o rest : c \in CountBytes,
                                        rest \in SeqsUpTo(bytes, 0, MaxParsed - 1) }
        colors   == { << 1, 2, 3 >>, << 255, 0, 128 >>, << 0, 0, 0 >> }
        lists    == SeqsUpTo(colors, 0, MaxPixels) \cup { LedPixelsMax }
    IN  { [fn |-> f, payload |-> x] : f \in Parsers, x \in payloads }
           \cup { [fn |-> "set_led_case_colors", pixels |-> x] : x \in lists }

InitParsers ==
    /\ input \in ParserInputs
    /\ output = Pending
    /\ IdleLocks
    /\ InitSession
    /\ IdleCodec
    /\ InitManager

\* parse_gestures(&payload)
ApplyParseGestures ==
    /\ input.fn = "parse_gestures"
    /\ output = Pending
    /\ output' = Returned(parse_gestures(input.payload))
    /\ UNCHANGED << input, codecVars, sessionVars, managerVars, lockVars >>

\* parse_led_colors(&payload)
ApplyParseLedColors ==
    /\ input.fn = "parse_led_colors"
    /\ output = Pending
    /\ output' = Returned(parse_led_colors(input.payload))
    /\ UNCHANGED << input, codecVars, sessionVars, managerVars, lockVars >>

\* the payload set_led_case_colors builds, and parse_led_colors of it
ApplySetLedCaseColors ==
    /\ input.fn = "set_led_case_colors"
    /\ output = Pending
    /\ LET payload == request_payload("set_led_case_colors",
                                      [pixels |-> input.pixels], "B181")
       IN  output' = Returned([payload |-> payload,
                               parsed |-> parse_led_colors(payload)])
    /\ UNCHANGED << input, codecVars, sessionVars, managerVars, lockVars >>

NextParsers ==
    \/ ApplyParseBattery
    \/ ApplyParseGestures
    \/ ApplyParseLedColors
    \/ ApplySetLedCaseColors

SpecParsers == InitParsers /\ [][NextParsers]_vars

\* the count byte of a payload, 0 if it has none
CountOf(payload) == IF payload = << >> THEN 0 ELSE payload[1]

\* the reading of device id in status is of an entry that lies inside the
\* payload, among the first count
BatteryEntryInside(payload, status, id) ==
    LET reading == CASE id = \h02 -> status.left
                     [] id = \h03 -> status.right
                     [] id = \h04 -> status.case
    IN  \/ reading = Disconnected
        \/ \E i \in 0..(CountOf(payload) - 1) :
              /\ 1 + i * 2 + 1 < Len(payload)
              /\ payload[1 + i * 2 + 1] = id
              /\ reading = Level(payload[1 + i * 2 + 2] % 128,
                                 payload[1 + i * 2 + 2] >= 128)

\* C38: on every payload parse_battery_payload, parse_gestures and
\* parse_led_colors read no index at or beyond the payload length and return
\* only entries that lie completely inside the payload, at most count of them.
C38_ParsersInBounds ==
    (input.fn \in Parsers /\ output # Pending) =>
        LET payload == input.payload
            value   == output.value
        IN  /\ \A i \in reads(input.fn, payload) : i < Len(payload)
            /\ input.fn = "parse_battery_payload" =>
                  \A id \in { \h02, \h03, \h04 } :
                      BatteryEntryInside(payload, value, id)
            /\ input.fn = "parse_gestures" =>
                  /\ Len(value) <= CountOf(payload)
                  /\ \A k \in 1..Len(value) :
                        LET base == 1 + (k - 1) * 4
                        IN  /\ base + 3 < Len(payload)
                            /\ value[k] = GestureSlot(payload[base + 1],
                                                      payload[base + 2],
                                                      payload[base + 3],
                                                      payload[base + 4])
            /\ input.fn = "parse_led_colors" =>
                  /\ Len(value) <= CountOf(payload)
                  /\ \A k \in 1..Len(value) :
                        LET base == 2 + (k - 1) * 4
                        IN  /\ base + 2 < Len(payload)
                            /\ value[k] = << payload[base + 1], payload[base + 2],
                                             payload[base + 3] >>

\* a payload whose count byte is larger than it can hold was parsed: what
\* came back is the one entry inside it
C38_Witness ==
    /\ input.fn = "parse_gestures"
    /\ output # Pending
    /\ Len(input.payload) = MaxParsed
    /\ input.payload[1] = 255
    /\ Len(output.value) = (MaxParsed - 1) \div 4

\* C39: for a list of n <= 63 pixels the payload of set_led_case_colors,
\* n and then (i + 1, r, g, b) for each pixel i, has 1 + 4n bytes, and
\* parse_led_colors of that payload returns the n pixels in their order with
\* r, g, b unchanged.
C39_LedRoundTrip ==
    (input.fn = "set_led_case_colors" /\ output # Pending) =>
        LET pixels  == input.pixels
            n       == Len(pixels)
            payload == output.value.payload
        IN  n <= 63 =>
               /\ Len(payload) = 1 + 4 * n
               /\ payload[1] = n
               /\ \A i \in 0..(n - 1) :
                     /\ payload[1 + 4 * i + 1] = i + 1
                     /\ << payload[1 + 4 * i + 2], payload[1 + 4 * i + 3],
                           payload[1 + 4 * i + 4] >> = pixels[i + 1]
               /\ output.value.parsed = pixels

\* the list of 63 pixels was sent and read back
C39_Witness ==
    /\ input.fn = "set_led_case_colors"
    /\ output # Pending
    /\ Len(input.pixels) = 63
    /\ Len(output.value.parsed) = 63
    /\ output.value.parsed[63] = << 63, 126, 192 >>

====
